---- MODULE Spec2Model ----
(***************************************************************************)
(* A model of the P2P file-share repository:                               *)
(*   - the poll coordinator (src/server/index.js): the room registry, its  *)
(*     HTTP handlers and the stale sweep;                                  *)
(*   - the push coordinator (src/unnamed/part_000): the socket.io variant; *)
(*   - the AdaptiveScheduler of src/client/src/services/socket.js with the *)
(*     data channels it sends on.                                          *)
(* The three subsystems share no state; each has its own specification     *)
(* (SpecPoll, SpecPush, SpecSched) over the module's variables.            *)
(***************************************************************************)
EXTENDS Integers, Sequences, FiniteSets, TLC

(***************************************************************************)
(* Bounds of the model                                                     *)
(***************************************************************************)
\* number of clock advances the poll coordinator's clock makes
MaxTicks == 2
\* mailbox capacity: a request that would append to a full mailbox is not issued
MaxMailbox == 1
\* length of a push room's clients array beyond which no join-room is issued
MaxClientList == 2
\* signals appended to the mailboxes of one room beyond which the relay
\* specification issues no further signal or file request
MaxRelayed == 3
\* poll requests a client's agent issues with its timer cleared
MaxLatePolls == 2
\* chunks in one receive buffer, and blobs a receiver saves
MaxChunks == 2
MaxSaved == 2
\* transfers eligible in one tick of the scheduler
MaxEligible == 18

(***************************************************************************)
(* Program constants                                                       *)
(***************************************************************************)
STALE_TIMEOUT == 30000

\* granularity of the modelled clock (ms): a timestamp's age is 0 (fresh),
\* STALE_TIMEOUT (the boundary: not > STALE_TIMEOUT, but not < it either) or
\* more (stale)
TickMs == STALE_TIMEOUT
\* Date.now() is positive: the clock starts one tick after the epoch
StartTime == TickMs
EndTime == StartTime + MaxTicks * TickMs

(***************************************************************************)
(* Input sets of the poll coordinator                                      *)
(***************************************************************************)
RoomIds == {"r1"}
\* a request body may lack hostId: NoId is that falsy value (undefined)
NoId == "undefined"
HostIds == {"h1"}
ClientIds == {"c1", "c2"}
FileIds == {"f1", "f2"}
\* a FileDescriptor is represented by its id; a file list is a sequence of them
FileLists == {<<"f1">>, <<"f2", "f1">>}
\* rooms.get(roomId) of a roomId the Map does not hold
NoRoom == [absent |-> TRUE]
SignalTypes == {"offer", "answer"}
\* senders, targets and files of the relayed signals; "host" is the sentinel
\* target and "gone" an id no session has
SignalFrom == {"h1", "c1"}
SignalTo == {"host", "h1", "c1", "gone"}
SignalFiles == {"f1"}

VARIABLES
    \* ---- poll coordinator (src/server/index.js) ----
    rooms,          \* const rooms = new Map(): RoomIds -> room record or NoRoom
    now,            \* Date.now()
    \* history of the poll coordinator, kept for the claims
    requested,      \* per room and file: clients with a request-file not yet
                    \* followed by download-complete, leave or stale eviction
    lastSetById,    \* per roomId: argument of the last successful setFiles ever
    lastSetLive,    \* per roomId: the same, since the room was last created
    fate,           \* per roomId: "never" created, "live", "closed" or "evicted"
    swept,          \* a sweep tick has run since the clock last advanced
    \* history of the signal relay, kept for the claims
    accepted,       \* per room and mailbox: the signals appended, in order
    returned,       \* per room and mailbox: the signals poll responses returned
    lastStatus,     \* HTTP status of the last response (0 before the first)
    \* ---- polling client (src/client/src/services/socket.js, ApiService) ----
    agent,          \* per client: "idle", "polling" (pollTimer set) or "stopped"
    orphaned,       \* per client: its room was closed or evicted while it polled
    disconnects,    \* per client: host-disconnected events its agent emitted
    latePolls,      \* per client: poll requests it issued with its timer cleared
    \* ---- scheduler and data channels (src/client/src/services/socket.js) ----
    chan,           \* per data channel: the channel and its transfer object
    transfers,      \* scheduler.transfers: key -> channel of the transfer
    peerConnections,\* WebRTCHost.peerConnections: key -> channel of the pc
    isRunning,      \* scheduler.isRunning
    armed,          \* number of armed tick timers
    timeoutId,      \* scheduler.timeoutId: "null", or a timer "armed" or "fired"
    \* history of the scheduler, kept for the claims
    lastTick,       \* the tick the last step ran, if it ran one: the transfers
                    \* it found eligible and those whose send threw
    \* ---- push coordinator (src/unnamed/part_000) ----
    pushRooms,      \* const rooms = new Map(): RoomIds -> room record or NoRoom
    sockets,        \* the socket.io sockets and the properties set on them
    \* ---- receiver (src/client/src/services/socket.js, WebRTCClient) ----
    fileBuffers,    \* this.fileBuffers: fileId -> buffer or NoBuffer
    currentRoomId,  \* this.currentRoomId
    saved,          \* per fileId: the blobs downloadFile handed to the browser
    completions,    \* per fileId: calls of the onComplete callback
    received,       \* per fileId: binary messages taken into the present buffer
    emitted,        \* the download-complete events given to socket.emit
    \* ---- one tick of the scheduler over any number of transfers ----
    eligible,       \* activeTransfers.length of the tick
    served,         \* transfers the tick's for loop has called sendChunks for
    total,          \* data chunks the tick has sent so far
    \* ---- the client's page (ApiService closures and ClientRoom.js) ----
    lastFilesUpdatedAt, \* per client: the variable of startClientPolling
    filesShown,     \* per client: the list of the last room-joined or
                    \* files-updated event, which ClientRoom shows
    downloadingFiles, \* ClientRoom's downloadingFiles, of the page of DlClient
    \* ---- polls of the client agent whose responses are under way ----
    inFlight,       \* per poll slot: the response on its way to the agent
    handled,        \* the signals the agent gave to handleSignal, in order
    \* history of the clients' leaves, kept for the claims
    hasLeft         \* per client: it has left the room and not joined since

pollVars == <<rooms, now, requested, lastSetById, lastSetLive, fate, swept>>
schedVars ==
    <<chan, transfers, peerConnections, isRunning, armed, timeoutId, lastTick>>
pushVars == <<pushRooms, sockets>>
relayVars == <<accepted, returned, lastStatus>>
agentVars == <<agent, orphaned, disconnects, latePolls>>
recvVars == <<fileBuffers, currentRoomId, saved, completions, received, emitted>>
budgetVars == <<eligible, served, total>>
pageVars == <<lastFilesUpdatedAt, filesShown, downloadingFiles>>
flightVars == <<inFlight, handled>>
vars ==
    <<pollVars, relayVars, agentVars, schedVars, pushVars, recvVars, budgetVars,
      pageVars, flightVars, hasLeft>>

\* what the steps of each specification leave unchanged
exceptPoll ==
    <<relayVars, agentVars, schedVars, pushVars, recvVars, budgetVars,
      pageVars, flightVars, hasLeft>>
exceptRelay ==
    <<agentVars, schedVars, pushVars, recvVars, budgetVars, pageVars,
      flightVars, hasLeft>>
exceptAgent ==
    <<relayVars, schedVars, pushVars, recvVars, budgetVars, pageVars,
      flightVars, hasLeft>>
exceptSched ==
    <<pollVars, relayVars, agentVars, pushVars, recvVars, budgetVars,
      pageVars, flightVars, hasLeft>>
exceptPush ==
    <<pollVars, relayVars, agentVars, schedVars, recvVars, budgetVars,
      pageVars, flightVars, hasLeft>>
exceptRecv ==
    <<pollVars, relayVars, agentVars, schedVars, pushVars, budgetVars,
      pageVars, flightVars, hasLeft>>
exceptBudget ==
    <<pollVars, relayVars, agentVars, schedVars, pushVars, recvVars,
      pageVars, flightVars, hasLeft>>
exceptDownload ==
    <<relayVars, agentVars, schedVars, pushVars, budgetVars, pageVars,
      flightVars, hasLeft>>
exceptLockstep ==
    <<relayVars, agentVars, schedVars, recvVars, budgetVars, pageVars,
      flightVars, hasLeft>>

(***************************************************************************)
(* Poll coordinator: helpers                                               *)
(***************************************************************************)
Exists(r) == rooms[r] # NoRoom

\* room.clients.has(c)
HasClient(room, c) == c \in DOMAIN room.clients

\* the Set stored under fileId, or the empty set when the Map has no such key
Downloaders(room, f) ==
    IF f \in DOMAIN room.activeDownloads THEN room.activeDownloads[f] ELSE {}

\* a Map with key k set to v
MapSet(m, k, v) == [x \in DOMAIN m \cup {k} |-> IF x = k THEN v ELSE m[x]]

\* a Map with key k deleted
MapDelete(m, k) == [x \in DOMAIN m \ {k} |-> m[x]]

\* for (const [fileId, downloaders] of room.activeDownloads) {
\*   downloaders.delete(clientId); if (downloaders.size === 0) delete(fileId) }
DropDownloader(ad, c) ==
    [f \in {g \in DOMAIN ad : ad[g] \ {c} # {}} |-> ad[f] \ {c}]

\* mutant: the sweep evicts the session and leaves activeDownloads alone
DropDownloadersForgotten(ad, cs) == ad

\* the same for a set of clients, one after the other
DropDownloaders(ad, cs) ==
    [f \in {g \in DOMAIN ad : ad[g] \ cs # {}} |-> ad[f] \ cs]

\* getFileDownloadCounts(room)
getFileDownloadCounts(room) ==
    [f \in DOMAIN room.activeDownloads |-> Cardinality(room.activeDownloads[f])]

\* new Map()
EmptyMap == [x \in {} |-> {}]

NewClient(t) == [lastSeen |-> t, signals |-> <<>>, filesVersion |-> 0]

\* the room object the host handler creates; filesUpdatedAt is unset
\* (read as room.filesUpdatedAt || 0)
NewRoom(h, t) ==
    [hostId |-> h, hostLastSeen |-> t, files |-> <<>>, filesUpdatedAt |-> 0,
     clients |-> EmptyMap, hostSignals |-> <<>>, activeDownloads |-> EmptyMap]

EmptyRequested == [f \in FileIds |-> {}]

\* res.status(404).json(...) and res.json(...)
NotFound == [status |-> 404]
Ok(body) == [status |-> 200, body |-> body]

(***************************************************************************)
(* Poll coordinator: the stale sweep                                       *)
(***************************************************************************)
\* mutant: the sweep waits two staleness windows
HostStaleLate(room, t) == t - room.hostLastSeen > 2 * STALE_TIMEOUT

\* mutant: a host seen exactly STALE_TIMEOUT ago counts as stale
HostStaleAtLimit(room, t) == t - room.hostLastSeen >= STALE_TIMEOUT

HostStale(room, t) == t - room.hostLastSeen > STALE_TIMEOUT

ClientStale(client, t) == t - client.lastSeen > STALE_TIMEOUT

StaleClients(room, t) ==
    {c \in DOMAIN room.clients : ClientStale(room.clients[c], t)}

\* one room's pass through the sweep's loop body
SweepRoom(room, t) ==
    IF HostStale(room, t)
    THEN NoRoom
    ELSE [room EXCEPT
            !.clients = [c \in DOMAIN room.clients \ StaleClients(room, t)
                            |-> room.clients[c]],
            !.activeDownloads =
                DropDownloaders(room.activeDownloads, StaleClients(room, t))]

\* the rooms the sweep deletes, and the clients it evicts from a surviving room
Evicted(r) == Exists(r) /\ rooms'[r] = NoRoom
EvictedClients(r) ==
    IF Exists(r) /\ rooms'[r] # NoRoom
    THEN DOMAIN rooms[r].clients \ DOMAIN rooms'[r].clients
    ELSE {}

\* setInterval(() => { ... }, 10000)
Sweep ==
    /\ rooms' = [r \in RoomIds |->
                    IF Exists(r) THEN SweepRoom(rooms[r], now) ELSE NoRoom]
    /\ requested' = [r \in RoomIds |->
            IF rooms'[r] = NoRoom
            THEN EmptyRequested
            ELSE [f \in FileIds |-> requested[r][f] \ EvictedClients(r)]]
    /\ lastSetLive' = [r \in RoomIds |->
            IF Evicted(r) THEN <<>> ELSE lastSetLive[r]]
    /\ fate' = [r \in RoomIds |-> IF Evicted(r) THEN "evicted" ELSE fate[r]]
    /\ swept' = TRUE
    /\ UNCHANGED <<now, lastSetById>>

\* the passage of time between two requests or sweeps
AdvanceTime ==
    /\ now < EndTime
    /\ now' = now + TickMs
    /\ swept' = FALSE
    /\ UNCHANGED <<rooms, requested, lastSetById, lastSetLive, fate>>

(***************************************************************************)
(* Poll coordinator: request handlers.  A handler is its response, an      *)
(* operator of the state the request finds, and its effect, an action.     *)
(***************************************************************************)
\* POST /api/rooms/:roomId/host
RegisterHostResponse(r, h) == Ok([success |-> TRUE, roomId |-> r])

RegisterHost(r, h) ==
    /\ rooms' = [rooms EXCEPT ![r] =
                    IF ~Exists(r)
                    THEN NewRoom(h, now)
                    ELSE [rooms[r] EXCEPT !.hostId = h, !.hostLastSeen = now]]
    /\ lastSetLive' = [lastSetLive EXCEPT ![r] =
                    IF ~Exists(r) THEN <<>> ELSE lastSetLive[r]]
    /\ fate' = [fate EXCEPT ![r] = "live"]
    /\ UNCHANGED <<now, requested, lastSetById, swept>>

\* POST /api/rooms/:roomId/files
SetFilesResponse(r) ==
    IF ~Exists(r) THEN NotFound ELSE Ok([success |-> TRUE])

\* mutant: the new list is appended to the old one instead of replacing it
SetFilesAppend(r, files) ==
    /\ IF ~Exists(r)
       THEN UNCHANGED <<rooms, lastSetById, lastSetLive>>
       ELSE /\ rooms' = [rooms EXCEPT ![r] =
                    [rooms[r] EXCEPT !.files = @ \o files, !.filesUpdatedAt = now]]
            /\ lastSetById' = [lastSetById EXCEPT ![r] = files]
            /\ lastSetLive' = [lastSetLive EXCEPT ![r] = files]
    /\ UNCHANGED <<now, requested, fate, swept>>

SetFiles(r, files) ==
    /\ IF ~Exists(r)
       THEN UNCHANGED <<rooms, lastSetById, lastSetLive>>
       ELSE /\ rooms' = [rooms EXCEPT ![r] =
                    [rooms[r] EXCEPT !.files = files, !.filesUpdatedAt = now]]
            /\ lastSetById' = [lastSetById EXCEPT ![r] = files]
            /\ lastSetLive' = [lastSetLive EXCEPT ![r] = files]
    /\ UNCHANGED <<now, requested, fate, swept>>

\* the guard of the join handler: if (!room || !room.hostId) return 404
JoinRefused(r) == ~Exists(r) \/ rooms[r].hostId = NoId

\* POST /api/rooms/:roomId/join
JoinResponse(r, c) ==
    IF JoinRefused(r)
    THEN NotFound
    ELSE Ok([success |-> TRUE, files |-> rooms[r].files,
             hostId |-> rooms[r].hostId, hostOnline |-> TRUE])

Join(r, c) ==
    /\ IF JoinRefused(r)
       THEN UNCHANGED rooms
       ELSE rooms' = [rooms EXCEPT ![r].clients =
                    IF HasClient(rooms[r], c)
                    THEN [@ EXCEPT ![c].lastSeen = now]
                    ELSE MapSet(@, c, NewClient(now))]
    /\ UNCHANGED <<now, requested, lastSetById, lastSetLive, fate, swept>>

\* GET /api/rooms/:roomId
RoomStatusResponse(r) ==
    IF Exists(r) /\ rooms[r].hostId # NoId
    THEN Ok([exists |-> TRUE, hasHost |-> TRUE, fileCount |-> Len(rooms[r].files)])
    ELSE Ok([exists |-> FALSE, hasHost |-> FALSE])

\* GET /api/rooms/:roomId/host/poll
HostPollResponse(r) ==
    IF ~Exists(r)
    THEN NotFound
    ELSE Ok([signals |-> rooms[r].hostSignals,
             clientCount |-> Cardinality(DOMAIN rooms[r].clients),
             peerCounts |-> getFileDownloadCounts(rooms[r]),
             clients |-> DOMAIN rooms[r].clients])

\* variant: the host poll returns the mailbox without clearing it
HostPollKeeps(r) ==
    /\ IF ~Exists(r)
       THEN UNCHANGED rooms
       ELSE rooms' = [rooms EXCEPT ![r] = [rooms[r] EXCEPT !.hostLastSeen = now]]
    /\ UNCHANGED <<now, requested, lastSetById, lastSetLive, fate, swept>>

\* variant: a poll of an absent room creates it
HostPollCreates(r) ==
    /\ rooms' = [rooms EXCEPT ![r] =
            IF ~Exists(r) THEN NewRoom(NoId, now)
            ELSE [rooms[r] EXCEPT !.hostLastSeen = now, !.hostSignals = <<>>]]
    /\ UNCHANGED <<now, requested, lastSetById, lastSetLive, fate, swept>>

HostPoll(r) ==
    /\ IF ~Exists(r)
       THEN UNCHANGED rooms
       ELSE rooms' = [rooms EXCEPT ![r] =
                    [rooms[r] EXCEPT !.hostLastSeen = now, !.hostSignals = <<>>]]
    /\ UNCHANGED <<now, requested, lastSetById, lastSetLive, fate, swept>>

\* GET /api/rooms/:roomId/client/:clientId/poll
ClientPollResponse(r, c) ==
    IF ~Exists(r)
    THEN [status |-> 404, body |-> [hostOnline |-> FALSE]]
    ELSE Ok([signals |-> IF HasClient(rooms[r], c)
                         THEN rooms[r].clients[c].signals ELSE <<>>,
             files |-> rooms[r].files,
             hostOnline |-> (now - rooms[r].hostLastSeen) < STALE_TIMEOUT,
             hostId |-> rooms[r].hostId,
             filesUpdatedAt |-> rooms[r].filesUpdatedAt])

ClientPoll(r, c) ==
    /\ IF ~Exists(r)
       THEN UNCHANGED rooms
       ELSE \* a missing client is re-registered; an existing one gets
            \* lastSeen = now and its signals cleared
            rooms' = [rooms EXCEPT ![r].clients =
                    IF HasClient(rooms[r], c)
                    THEN [@ EXCEPT ![c].lastSeen = now, ![c].signals = <<>>]
                    ELSE MapSet(@, c, NewClient(now))]
    /\ UNCHANGED <<now, requested, lastSetById, lastSetLive, fate, swept>>

\* const signal = { fromId, type, data, fileId, timestamp: Date.now() }
\* (the timestamp is written and never read; the model leaves it out)
MkSignal(from, type, data, f) ==
    [fromId |-> from, type |-> type, data |-> data, fileId |-> f]

\* variant: the sentinel 'host' is not recognised
SignalTargetNoSentinel(room, to) ==
    IF to = room.hostId THEN "host"
    ELSE IF HasClient(room, to) THEN to
    ELSE "dropped"

\* where the signal handler appends: "host", a client id, or nowhere
SignalTarget(room, to) ==
    IF to = room.hostId \/ to = "host" THEN "host"
    ELSE IF HasClient(room, to) THEN to
    ELSE "dropped"

\* POST /api/rooms/:roomId/signal
SignalResponse(r) ==
    IF ~Exists(r) THEN NotFound ELSE Ok([success |-> TRUE])

\* variant: the signal is put at the head of the mailbox
SignalPrepends(r, from, to, type, data, f) ==
    /\ IF ~Exists(r)
       THEN UNCHANGED rooms
       ELSE LET room == rooms[r]
                sig == MkSignal(from, type, data, f)
                tgt == SignalTarget(room, to)
            IN  rooms' = [rooms EXCEPT ![r] =
                    IF tgt = "host"
                    THEN [room EXCEPT !.hostSignals = <<sig>> \o @]
                    ELSE IF tgt = "dropped" THEN room
                    ELSE [room EXCEPT !.clients[tgt].signals = <<sig>> \o @]]
    /\ UNCHANGED <<now, requested, lastSetById, lastSetLive, fate, swept>>

Signal(r, from, to, type, data, f) ==
    /\ IF ~Exists(r)
       THEN UNCHANGED rooms
       ELSE LET room == rooms[r]
                sig == MkSignal(from, type, data, f)
                tgt == SignalTarget(room, to)
            IN  rooms' = [rooms EXCEPT ![r] =
                    IF tgt = "host"
                    THEN [room EXCEPT !.hostSignals = Append(@, sig)]
                    ELSE IF tgt = "dropped" THEN room
                    ELSE [room EXCEPT !.clients[tgt].signals = Append(@, sig)]]
    /\ UNCHANGED <<now, requested, lastSetById, lastSetLive, fate, swept>>

\* variant: the file request does not name the requesting client
FileRequestAnonymous(c, f) == [type |-> "file-request", fromId |-> NoId, fileId |-> f]

\* the file-request signal pushed to the host: no data field
\* (its timestamp left out as in MkSignal)
FileRequest(c, f) == [type |-> "file-request", fromId |-> c, fileId |-> f]

\* POST /api/rooms/:roomId/request-file
RequestFileResponse(r) ==
    IF ~Exists(r) THEN NotFound ELSE Ok([success |-> TRUE])

RequestFile(r, c, f) ==
    /\ IF ~Exists(r)
       THEN UNCHANGED <<rooms, requested>>
       ELSE /\ rooms' = [rooms EXCEPT ![r] =
                    [rooms[r] EXCEPT
                        !.activeDownloads =
                            MapSet(@, f, Downloaders(rooms[r], f) \cup {c}),
                        !.hostSignals = Append(@, FileRequest(c, f))]]
            /\ requested' = [requested EXCEPT ![r][f] = @ \cup {c}]
    /\ UNCHANGED <<now, lastSetById, lastSetLive, fate, swept>>

\* const downloaders = room.activeDownloads.get(fileId);
\* if (downloaders) { downloaders.delete(clientId); if (size === 0) delete }
CompleteDownload(ad, c, f) ==
    IF f \in DOMAIN ad
    THEN IF ad[f] \ {c} = {}
         THEN MapDelete(ad, f)
         ELSE [ad EXCEPT ![f] = @ \ {c}]
    ELSE ad

\* POST /api/rooms/:roomId/download-complete
DownloadCompleteResponse(r) ==
    IF ~Exists(r) THEN NotFound ELSE Ok([success |-> TRUE])

DownloadComplete(r, c, f) ==
    /\ IF ~Exists(r)
       THEN UNCHANGED <<rooms, requested>>
       ELSE /\ rooms' = [rooms EXCEPT ![r].activeDownloads =
                                CompleteDownload(@, c, f)]
            /\ requested' = [requested EXCEPT ![r][f] = @ \ {c}]
    /\ UNCHANGED <<now, lastSetById, lastSetLive, fate, swept>>

\* POST /api/rooms/:roomId/leave
LeaveResponse(r) == Ok([success |-> TRUE])

Leave(r, c) ==
    /\ IF ~Exists(r)
       THEN UNCHANGED <<rooms, requested>>
       ELSE /\ rooms' = [rooms EXCEPT ![r] =
                    [rooms[r] EXCEPT
                        !.clients = MapDelete(@, c),
                        !.activeDownloads = DropDownloader(@, c)]]
            /\ requested' = [requested EXCEPT ![r] =
                    [f \in FileIds |-> requested[r][f] \ {c}]]
    /\ UNCHANGED <<now, lastSetById, lastSetLive, fate, swept>>

\* POST /api/rooms/:roomId/close
CloseResponse(r) == Ok([success |-> TRUE])

\* variant: close marks the room hostless and keeps it in the registry
CloseKeeps(r) ==
    /\ rooms' = [rooms EXCEPT ![r] =
            IF Exists(r) THEN [rooms[r] EXCEPT !.hostId = NoId] ELSE NoRoom]
    /\ requested' = [requested EXCEPT ![r] = EmptyRequested]
    /\ lastSetLive' = [lastSetLive EXCEPT ![r] = <<>>]
    /\ fate' = [fate EXCEPT ![r] = IF Exists(r) THEN "closed" ELSE fate[r]]
    /\ UNCHANGED <<now, lastSetById, swept>>

Close(r) ==
    /\ rooms' = [rooms EXCEPT ![r] = NoRoom]
    /\ requested' = [requested EXCEPT ![r] = EmptyRequested]
    /\ lastSetLive' = [lastSetLive EXCEPT ![r] = <<>>]
    /\ fate' = [fate EXCEPT ![r] = IF Exists(r) THEN "closed" ELSE fate[r]]
    /\ UNCHANGED <<now, lastSetById, swept>>

(***************************************************************************)
(* Poll coordinator: specification.  SpecPoll runs every handler but the   *)
(* signal relay, which touches the mailboxes only.                         *)
(***************************************************************************)
\* the bound on the host mailbox: no request is issued that would append to
\* the host mailbox of room r holding n signals
HostMailboxBelow(r, n) == Exists(r) => Len(rooms[r].hostSignals) < n

InitPoll ==
    /\ rooms = [r \in RoomIds |-> NoRoom]
    /\ now = StartTime
    /\ requested = [r \in RoomIds |-> EmptyRequested]
    /\ lastSetById = [r \in RoomIds |-> <<>>]
    /\ lastSetLive = [r \in RoomIds |-> <<>>]
    /\ fate = [r \in RoomIds |-> "never"]
    /\ swept = FALSE

NextPoll ==
    \/ AdvanceTime /\ UNCHANGED exceptPoll
    \/ Sweep /\ UNCHANGED exceptPoll
    \/ \E r \in RoomIds :
        \/ \E h \in HostIds \cup {NoId} : RegisterHost(r, h) /\ UNCHANGED exceptPoll
        \/ \E fl \in FileLists : SetFiles(r, fl) /\ UNCHANGED exceptPoll
        \/ HostPoll(r) /\ UNCHANGED exceptPoll
        \/ Close(r) /\ UNCHANGED exceptPoll
        \/ \E c \in ClientIds :
            \/ Join(r, c) /\ UNCHANGED exceptPoll
            \/ ClientPoll(r, c) /\ UNCHANGED exceptPoll
            \/ Leave(r, c) /\ UNCHANGED exceptPoll
            \/ \E f \in FileIds :
                \/ /\ HostMailboxBelow(r, MaxMailbox)
                   /\ RequestFile(r, c, f)
                   /\ UNCHANGED exceptPoll
                \/ DownloadComplete(r, c, f) /\ UNCHANGED exceptPoll

(***************************************************************************)
(* Poll coordinator: the signal relay.  SpecRelay runs every handler,      *)
(* the signal relay included, at a fixed clock (no sweep evicts anything), *)
(* and keeps, for every mailbox, the log of the signals the handlers       *)
(* appended to it and the log of the signals the poll responses returned.  *)
(***************************************************************************)
\* the mailboxes of a room: the host's and one per client session
Mailboxes == {"host"} \cup ClientIds

\* room.hostSignals or client.signals; a mailbox that does not exist is empty
Pending(r, m) ==
    IF ~Exists(r) THEN <<>>
    ELSE IF m = "host" THEN rooms[r].hostSignals
    ELSE IF HasClient(rooms[r], m) THEN rooms[r].clients[m].signals
    ELSE <<>>

NoLog == [m \in Mailboxes |-> <<>>]

\* signals appended to the mailboxes of room r since they were created
Relayed(r) == Len(accepted[r]["host"]) + Len(accepted[r]["c1"]) + Len(accepted[r]["c2"])

\* the requests the relay is driven with: <<fromId, toId, type>>
RelayInputs ==
    { <<"c1", "host", "offer">>, <<"c1", "h1", "answer">>,
      <<"h1", "c1", "offer">>, <<"h1", "c1", "answer">>,
      <<"h1", "c2", "offer">>, <<"h1", "gone", "offer">> }

\* the logs of the mailboxes ms of room r are forgotten with the mailboxes
Forget(r, ms) ==
    /\ accepted' = [accepted EXCEPT ![r] =
            [m \in Mailboxes |-> IF m \in ms THEN <<>> ELSE accepted[r][m]]]
    /\ returned' = [returned EXCEPT ![r] =
            [m \in Mailboxes |-> IF m \in ms THEN <<>> ELSE returned[r][m]]]

RelayRegisterHost(r, h) ==
    /\ RegisterHost(r, h)
    /\ lastStatus' = RegisterHostResponse(r, h).status
    /\ UNCHANGED <<accepted, returned>>

RelaySetFiles(r, files) ==
    /\ SetFiles(r, files)
    /\ lastStatus' = SetFilesResponse(r).status
    /\ UNCHANGED <<accepted, returned>>

RelayJoin(r, c) ==
    /\ Join(r, c)
    /\ lastStatus' = JoinResponse(r, c).status
    /\ UNCHANGED <<accepted, returned>>

\* the host poll's response carries the signals it returns
RelayHostPoll(r) ==
    /\ HostPoll(r)
    /\ lastStatus' = HostPollResponse(r).status
    /\ returned' = IF Exists(r)
                   THEN [returned EXCEPT ![r]["host"] =
                            @ \o HostPollResponse(r).body.signals]
                   ELSE returned
    /\ UNCHANGED accepted

RelayClientPoll(r, c) ==
    /\ ClientPoll(r, c)
    /\ lastStatus' = ClientPollResponse(r, c).status
    /\ returned' = IF Exists(r)
                   THEN [returned EXCEPT ![r][c] =
                            @ \o ClientPollResponse(r, c).body.signals]
                   ELSE returned
    /\ UNCHANGED accepted

\* a relayed signal is logged at the mailbox named by the request
RelaySignal(r, from, to, type, f) ==
    /\ Relayed(r) < MaxRelayed
    /\ Signal(r, from, to, type, "sdp", f)
    /\ lastStatus' = SignalResponse(r).status
    /\ accepted' =
            IF Exists(r) /\ SignalTarget(rooms[r], to) # "dropped"
            THEN [accepted EXCEPT ![r][SignalTarget(rooms[r], to)] =
                    Append(@, MkSignal(from, type, "sdp", f))]
            ELSE accepted
    /\ UNCHANGED returned

RelayRequestFile(r, c, f) ==
    /\ Relayed(r) < MaxRelayed
    /\ RequestFile(r, c, f)
    /\ lastStatus' = RequestFileResponse(r).status
    /\ accepted' = IF Exists(r)
                   THEN [accepted EXCEPT ![r]["host"] = Append(@, FileRequest(c, f))]
                   ELSE accepted
    /\ UNCHANGED returned

RelayDownloadComplete(r, c, f) ==
    /\ DownloadComplete(r, c, f)
    /\ lastStatus' = DownloadCompleteResponse(r).status
    /\ UNCHANGED <<accepted, returned>>

\* leave deletes the client's session and its mailbox
RelayLeave(r, c) ==
    /\ Leave(r, c)
    /\ lastStatus' = LeaveResponse(r).status
    /\ Forget(r, {c})

\* close deletes the room and every mailbox of it
RelayClose(r) ==
    /\ Close(r)
    /\ lastStatus' = CloseResponse(r).status
    /\ Forget(r, Mailboxes)

InitRelay ==
    /\ accepted = [r \in RoomIds |-> NoLog]
    /\ returned = [r \in RoomIds |-> NoLog]
    /\ lastStatus = 0

NextRelay ==
    \E r \in RoomIds :
        \/ \E h \in HostIds \cup {NoId} :
            RelayRegisterHost(r, h) /\ UNCHANGED exceptRelay
        \/ RelaySetFiles(r, <<"f1">>) /\ UNCHANGED exceptRelay
        \/ RelayHostPoll(r) /\ UNCHANGED exceptRelay
        \/ RelayClose(r) /\ UNCHANGED exceptRelay
        \/ \E i \in RelayInputs, f \in SignalFiles :
            RelaySignal(r, i[1], i[2], i[3], f) /\ UNCHANGED exceptRelay
        \/ \E c \in ClientIds :
            \/ RelayJoin(r, c) /\ UNCHANGED exceptRelay
            \/ RelayClientPoll(r, c) /\ UNCHANGED exceptRelay
            \/ RelayLeave(r, c) /\ UNCHANGED exceptRelay
            \/ \E f \in SignalFiles :
                \/ RelayRequestFile(r, c, f) /\ UNCHANGED exceptRelay
                \/ RelayDownloadComplete(r, c, f) /\ UNCHANGED exceptRelay

(***************************************************************************)
(* Polling client (ApiService of src/client/src/services/socket.js) run    *)
(* against the poll coordinator.  SpecAgent runs the clients' joinRoom and *)
(* poll loop, the host's registrations (hostRoom and the heartbeat of its  *)
(* poll loop), its polls and its close, the clock and the sweep.           *)
(***************************************************************************)
\* the rooms the step deletes, by close or by the sweep
Deleted(r) == Exists(r) /\ rooms'[r] = NoRoom

\* a polling client whose session is in a room the step deletes is orphaned
Orphan ==
    orphaned' = [c \in ClientIds |->
        \/ orphaned[c]
        \/ /\ agent[c] = "polling"
           /\ \E r \in RoomIds : Deleted(r) /\ HasClient(rooms[r], c)]

\* joinRoom: POST join; a result without error starts the poll loop
joinRoom(r, c) ==
    /\ agent[c] = "idle"
    /\ Join(r, c)
    /\ agent' = [agent EXCEPT ![c] =
            IF JoinResponse(r, c).status = 200 THEN "polling" ELSE "idle"]
    /\ UNCHANGED <<orphaned, disconnects, latePolls>>

\* if (data.error || !data.hostOnline): host-disconnected is emitted and
\* stopPolling() clears the timer
HostGone(resp) == resp.status = 404 \/ ~resp.body.hostOnline

\* the poll function (this.pollFn): roomId being set, GET poll; on error or
\* hostOnline false, host-disconnected is emitted and the timer cleared
pollFn(r, c) ==
    /\ ClientPoll(r, c)
    /\ IF HostGone(ClientPollResponse(r, c))
       THEN /\ agent' = [agent EXCEPT ![c] = "stopped"]
            /\ orphaned' = [orphaned EXCEPT ![c] = FALSE]
            /\ disconnects' = [disconnects EXCEPT ![c] = @ + 1]
       ELSE UNCHANGED <<agent, orphaned, disconnects>>

\* one run of the client's poll function by its timer, the timer being set
poll(r, c) ==
    /\ agent[c] = "polling"
    /\ pollFn(r, c)
    /\ UNCHANGED latePolls

\* stopPolling() clears the timer and leaves pollFn set
PollFnSet(c) == agent[c] \in {"polling", "stopped"}

\* triggerPoll(), and the timer requestFile sets: if (this.pollFn) this.pollFn()
triggerPoll(r, c) ==
    /\ PollFnSet(c)
    /\ latePolls[c] < MaxLatePolls
    /\ pollFn(r, c)
    /\ latePolls' = [latePolls EXCEPT ![c] =
            IF agent[c] = "stopped" THEN @ + 1 ELSE @]

\* hostRoom, or the heartbeat at the head of the host's poll function
hostRoom(r, h) ==
    RegisterHost(r, h) /\ UNCHANGED <<agent, orphaned, disconnects, latePolls>>

\* the GET host/poll of the host's poll function
hostPoll(r) ==
    HostPoll(r) /\ UNCHANGED <<agent, orphaned, disconnects, latePolls>>

\* disconnect() of the host: POST close
disconnect(r) ==
    Close(r) /\ Orphan /\ UNCHANGED <<agent, disconnects, latePolls>>

AgentSweep == Sweep /\ Orphan /\ UNCHANGED <<agent, disconnects, latePolls>>

AgentAdvanceTime ==
    AdvanceTime /\ UNCHANGED <<agent, orphaned, disconnects, latePolls>>

InitAgent ==
    /\ agent = [c \in ClientIds |-> "idle"]
    /\ orphaned = [c \in ClientIds |-> FALSE]
    /\ disconnects = [c \in ClientIds |-> 0]
    /\ latePolls = [c \in ClientIds |-> 0]

NextAgent ==
    \/ AgentAdvanceTime /\ UNCHANGED exceptAgent
    \/ AgentSweep /\ UNCHANGED exceptAgent
    \/ \E r \in RoomIds :
        \/ \E h \in HostIds : hostRoom(r, h) /\ UNCHANGED exceptAgent
        \/ hostPoll(r) /\ UNCHANGED exceptAgent
        \/ disconnect(r) /\ UNCHANGED exceptAgent
        \/ \E c \in ClientIds :
            \/ joinRoom(r, c) /\ UNCHANGED exceptAgent
            \/ poll(r, c) /\ UNCHANGED exceptAgent
            \/ triggerPoll(r, c) /\ UNCHANGED exceptAgent

\* setInterval(poll, POLL_INTERVAL): a client whose timer is set keeps polling
AgentFairness ==
    \A r \in RoomIds, c \in ClientIds :
        WF_vars(poll(r, c) /\ UNCHANGED exceptAgent)

(***************************************************************************)
(* Receiver (WebRTCClient of src/client/src/services/socket.js)            *)
(***************************************************************************)
RecvFiles == {"f1", "f2"}
\* the roomId arguments of requestFile: a room id, or none
RecvRooms == {"r1", NoId}

\* the messages of a data channel: strings (control messages, or text that is
\* not JSON) and binary chunks, each a sequence of bytes
StringMsg(text) == [string |-> TRUE, text |-> text]
BinaryMsg(bytes) == [string |-> FALSE, bytes |-> bytes]
RecvMsgs ==
    {StringMsg(t) : t \in {"metadata", "complete", "other", "garbage"}}
        \cup {BinaryMsg(b) : b \in {<<1, 2>>, <<3>>}}

NoBuffer == [absent |-> TRUE]
\* { metadata: null, chunks: [], receivedSize: 0, startTime: null }
NewBuffer == [metadata |-> "null", chunks |-> <<>>, receivedSize |-> 0]

HasBuffer(f) == fileBuffers[f] # NoBuffer

\* new Blob(buffer.chunks): the bytes of the chunks, in the order of the array
RECURSIVE Blob(_)
Blob(chunks) ==
    IF chunks = <<>> THEN <<>> ELSE Head(chunks) \o Blob(Tail(chunks))

\* handleOffer: a new buffer is set for the fileId, over any buffer it has
handleOffer(f) ==
    /\ fileBuffers' = [fileBuffers EXCEPT ![f] = NewBuffer]
    /\ received' = [received EXCEPT ![f] = <<>>]
    /\ UNCHANGED <<currentRoomId, saved, completions, emitted>>

\* requestFile(roomId, fileId)
requestFile(roomId) ==
    /\ currentRoomId' = roomId
    /\ UNCHANGED <<fileBuffers, saved, completions, received, emitted>>

\* downloadFile: nothing without a buffer that has its metadata; else the
\* blob is saved, the buffer deleted, download-complete given to socket.emit
\* if currentRoomId is set, and onComplete called
downloadFile(f) ==
    IF ~HasBuffer(f) \/ fileBuffers[f].metadata = "null"
    THEN UNCHANGED <<fileBuffers, saved, completions, received, emitted>>
    ELSE /\ saved' = [saved EXCEPT ![f] = Append(@, Blob(fileBuffers[f].chunks))]
         /\ fileBuffers' = [fileBuffers EXCEPT ![f] = NoBuffer]
         /\ received' = [received EXCEPT ![f] = <<>>]
         /\ emitted' = IF currentRoomId # NoId
                       THEN Append(emitted, [roomId |-> currentRoomId, fileId |-> f])
                       ELSE emitted
         /\ completions' = [completions EXCEPT ![f] = @ + 1]

\* variant: a chunk is put at the head of the array
PushChunkFirst(buffer, bytes) ==
    [buffer EXCEPT !.chunks = <<bytes>> \o @, !.receivedSize = @ + Len(bytes)]

\* buffer.chunks.push(data); buffer.receivedSize += data.byteLength
PushChunk(buffer, bytes) ==
    [buffer EXCEPT !.chunks = Append(@, bytes), !.receivedSize = @ + Len(bytes)]

\* dc.onmessage: handleMessage(fileId, e.data)
handleMessage(f, m) ==
    /\ IF ~HasBuffer(f)
       THEN UNCHANGED <<fileBuffers, saved, completions, received, emitted>>
       ELSE IF m.string
       THEN IF m.text = "metadata"
            THEN /\ fileBuffers' = [fileBuffers EXCEPT ![f].metadata = "metadata"]
                 /\ UNCHANGED <<saved, completions, received, emitted>>
            ELSE IF m.text = "complete"
            THEN downloadFile(f)
            ELSE \* another type, or JSON.parse threw
                 UNCHANGED <<fileBuffers, saved, completions, received, emitted>>
       ELSE /\ fileBuffers' = [fileBuffers EXCEPT ![f] = PushChunk(@, m.bytes)]
            /\ received' = [received EXCEPT ![f] = Append(@, m.bytes)]
            /\ UNCHANGED <<saved, completions, emitted>>
    /\ UNCHANGED currentRoomId

\* WebRTCClient.cleanup: this.fileBuffers.clear()
RecvCleanup ==
    /\ fileBuffers' = [f \in RecvFiles |-> NoBuffer]
    /\ received' = [f \in RecvFiles |-> <<>>]
    /\ UNCHANGED <<currentRoomId, saved, completions, emitted>>

\* the bounds: no chunk arrives at a buffer holding MaxChunks chunks, and no
\* 'complete' at a receiver that saved MaxSaved blobs
Arrives(f, m) ==
    /\ (~m.string /\ HasBuffer(f)) => Len(fileBuffers[f].chunks) < MaxChunks
    /\ (m.string /\ m.text = "complete") =>
            Len(saved["f1"]) + Len(saved["f2"]) < MaxSaved

InitRecv ==
    /\ fileBuffers = [f \in RecvFiles |-> NoBuffer]
    /\ currentRoomId = NoId
    /\ saved = [f \in RecvFiles |-> <<>>]
    /\ completions = [f \in RecvFiles |-> 0]
    /\ received = [f \in RecvFiles |-> <<>>]
    /\ emitted = <<>>

NextRecv ==
    \/ RecvCleanup /\ UNCHANGED exceptRecv
    \/ \E roomId \in RecvRooms : requestFile(roomId) /\ UNCHANGED exceptRecv
    \/ \E f \in RecvFiles :
        \/ handleOffer(f) /\ UNCHANGED exceptRecv
        \/ \E m \in RecvMsgs :
            Arrives(f, m) /\ handleMessage(f, m) /\ UNCHANGED exceptRecv

(***************************************************************************)
(* A download on the poll transport, end to end: the page of one client    *)
(* (ApiService and the WebRTCClient built on it as its socket) run against *)
(* the poll coordinator and a host that keeps the room registered.  The    *)
(* clock stands still.                                                     *)
(***************************************************************************)
DlClient == "c1"
DlFiles == SignalFiles

\* the events that have a callback registered with apiService.on: those of
\* ClientRoom and of the WebRTCClient constructor
Listeners ==
    {"connect", "room-joined", "room-error", "files-updated",
     "host-disconnected", "webrtc-offer", "webrtc-ice-candidate"}

\* ApiService.emit(event, data): the callbacks registered for the event are
\* called with the data; it sends no request, and the callbacks of Listeners
\* send the coordinator none either
emit(event) == UNCHANGED pollVars

DlHostRoom(r, h) == RegisterHost(r, h) /\ UNCHANGED recvVars

DlSetFiles(r, files) == SetFiles(r, files) /\ UNCHANGED recvVars

DlHostPoll(r) == HostPoll(r) /\ UNCHANGED recvVars

DlJoin(r) == Join(r, DlClient) /\ UNCHANGED recvVars

DlClientPoll(r) == ClientPoll(r, DlClient) /\ UNCHANGED recvVars

DlLeave(r) == Leave(r, DlClient) /\ UNCHANGED recvVars

\* a file is requested: POST request-file, and requestFile of the receiver;
\* each file is requested for one download
DlRequestFile(r, f) ==
    /\ completions[f] = 0
    /\ Exists(r) => DlClient \notin Downloaders(rooms[r], f)
    /\ HostMailboxBelow(r, MaxMailbox)
    /\ RequestFile(r, DlClient, f)
    /\ requestFile(r)

\* the host answers a request with an offer for the file
DlOffer(r, f) ==
    /\ Exists(r)
    /\ DlClient \in Downloaders(rooms[r], f)
    /\ ~HasBuffer(f)
    /\ completions[f] = 0
    /\ handleOffer(f)
    /\ UNCHANGED pollVars

\* a message of the file's data channel; the download-complete that
\* downloadFile gives to this.socket.emit goes through ApiService.emit
DlMessage(f, m) ==
    /\ Arrives(f, m)
    /\ handleMessage(f, m)
    /\ emit("download-complete")

\* ApiService.downloadComplete: POST download-complete
DlDownloadComplete(r, f) ==
    DownloadComplete(r, DlClient, f) /\ UNCHANGED recvVars

NextDownload ==
    \/ \E r \in RoomIds :
        \/ \E h \in HostIds : DlHostRoom(r, h) /\ UNCHANGED exceptDownload
        \/ \E files \in {<<"f1">>} :
                DlSetFiles(r, files) /\ UNCHANGED exceptDownload
        \/ DlHostPoll(r) /\ UNCHANGED exceptDownload
        \/ DlJoin(r) /\ UNCHANGED exceptDownload
        \/ DlClientPoll(r) /\ UNCHANGED exceptDownload
        \/ DlLeave(r) /\ UNCHANGED exceptDownload
        \/ \E f \in DlFiles :
            \/ DlRequestFile(r, f) /\ UNCHANGED exceptDownload
            \/ DlOffer(r, f) /\ UNCHANGED exceptDownload
            \/ DlDownloadComplete(r, f) /\ UNCHANGED exceptDownload
    \/ \E f \in DlFiles, m \in RecvMsgs :
        DlMessage(f, m) /\ UNCHANGED exceptDownload

\* setInterval(poll, POLL_INTERVAL) of the host's and of the client's page:
\* both poll loops keep running.  Nothing in the client calls
\* ApiService.downloadComplete, so no fairness is due to it.
DownloadFairness ==
    \A r \in RoomIds :
        /\ WF_vars(DlHostPoll(r) /\ UNCHANGED exceptDownload)
        /\ WF_vars(DlClientPoll(r) /\ UNCHANGED exceptDownload)

(***************************************************************************)
(* Scheduler (src/client/src/services/socket.js): constants and inputs     *)
(***************************************************************************)
CHUNK_SIZE == 65536
MAX_BUFFER_SIZE == 2 * 1024 * 1024
\* the per-tick chunk budget of tick(): Math.floor(16 / activeTransfers.length)
ChunkBudget == 16
\* sendComplete sends the marker once bufferedAmount < 1000
CompleteThreshold == 1000
\* byte length of the metadata message for a short file name, and of
\* JSON.stringify({ type: 'complete' })
MetaSize == 71
CompleteSize == 19

\* the data channels the host creates, one per file-requested event, and the
\* transfer key `${clientId}-${fileId}` each is created for
Chans == {"a", "b"}
Keys == {"c1-f1", "c2-f2"}
\* a second channel made for the key of "a": the client asked for the file again
RetryChan == "a2"
Attempts == Chans \cup {RetryChan}
ChanKey == [ch \in Attempts |-> IF ch = "b" THEN "c2-f2" ELSE "c1-f1"]
\* file.size of the requested file: 3 full chunks and a partial one, and one
\* chunk more than the buffer ceiling holds
FileSize ==
    [k \in Keys |-> IF k = "c1-f1" THEN 200000 ELSE MAX_BUFFER_SIZE + CHUNK_SIZE]
\* transfers.get(key) / peerConnections.get(key) of a key the Map does not hold
NoChan == "none"

\* what dataChannel.send does in one sendChunks call: it throws on the first
\* attempt, on the third, on the completion marker, or never
Outcomes == {"ok", "throw0", "throw2", "markerThrow"}
NoFail == -1
FailAt(out) == IF out = "throw0" THEN 0 ELSE IF out = "throw2" THEN 2 ELSE NoFail

Min(a, b) == IF a < b THEN a ELSE b
Max(a, b) == IF a > b THEN a ELSE b

\* messages on a data channel, in send order
MetadataMsg == [type |-> "metadata", from |-> 0, to |-> 0]
CompleteMsg == [type |-> "complete", from |-> 0, to |-> 0]
ChunkMsg(from, to) == [type |-> "chunk", from |-> from, to |-> to]

\* a data channel with the transfer object startTransfer creates for it:
\* readyState is "new" before initiateFileTransfer creates it; phase is the
\* position of startTransfer ("idle", "reading" while it awaits
\* file.arrayBuffer(), "added" once the transfer object is registered);
\* pending counts the armed setTimeout(sendComplete, 10); callbacks counts the
\* calls of onComplete; markerFate is what became of the completion marker;
\* closeEvent is a close event queued by pc.close()
NewChan ==
    [readyState |-> "new", phase |-> "idle", bufferedAmount |-> 0, log |-> <<>>,
     totalSize |-> 0, offset |-> 0, chunksSent |-> 0, completed |-> FALSE,
     pending |-> 0, callbacks |-> 0, markerFate |-> "none", closeEvent |-> FALSE]

(***************************************************************************)
(* Scheduler: the methods of AdaptiveScheduler as functions of the         *)
(* scheduler's state S = [chan, transfers, isRunning, armed, timeoutId]    *)
(* (and the history lastTick, which every handler starts from NoTick)      *)
(***************************************************************************)
NoTick == [act |-> {}, refused |-> {}]

Cur ==
    [chan |-> chan, transfers |-> transfers, isRunning |-> isRunning,
     armed |-> armed, timeoutId |-> timeoutId, lastTick |-> NoTick]

Becomes(state) ==
    \E S \in {state} :
        /\ chan' = S.chan
        /\ transfers' = S.transfers
        /\ isRunning' = S.isRunning
        /\ armed' = S.armed
        /\ timeoutId' = S.timeoutId
        /\ lastTick' = S.lastTick

\* this.transfers.size, and the channels of the registered transfers
Size(S) == Cardinality({k \in Keys : S.transfers[k] # NoChan})
Registered(S) == {S.transfers[k] : k \in Keys} \ {NoChan}

\* stop(): clearTimeout disarms the timer timeoutId names, if it is still armed
\* variant: stop() leaves the armed timer alone
stopKeepsTimer(S) == [S EXCEPT !.isRunning = FALSE]

stop(S) ==
    [S EXCEPT !.isRunning = FALSE,
              !.armed = IF S.timeoutId = "armed" THEN @ - 1 ELSE @,
              !.timeoutId = "null"]

\* variant: removeTransfer stops the loop whatever is left in the Map
removeTransferStops(S, key) == stop([S EXCEPT !.transfers[key] = NoChan])

removeTransfer(S, key) ==
    LET T == [S EXCEPT !.transfers[key] = NoChan]
    IN  IF Size(T) = 0 THEN stop(T) ELSE T

\* transfer.onComplete: () => scheduler.removeTransfer(transferKey)
onComplete(S, ch) ==
    removeTransfer([S EXCEPT !.chan[ch].callbacks = @ + 1], ChanKey[ch])

\* const end = Math.min(transfer.offset + CHUNK_SIZE, totalSize)
\* mutant: the slice end is not clamped to totalSize
SliceEndUnclamped(t) == t.offset + CHUNK_SIZE

SliceEnd(t) == Min(t.offset + CHUNK_SIZE, t.totalSize)

\* dataChannel.send(chunk) succeeded: offset = end, chunksSent++
ChunkSent(t) ==
    [t EXCEPT !.bufferedAmount = @ + (SliceEnd(t) - t.offset),
              !.log = Append(@, ChunkMsg(t.offset, SliceEnd(t))),
              !.offset = SliceEnd(t),
              !.chunksSent = @ + 1]

\* mutant: a failed send advances the offset all the same
SendFailedSkips(t) == [t EXCEPT !.offset = SliceEnd(t)]

\* dataChannel.send(chunk) threw: the catch leaves the transfer as it is
SendFailed(t) == t

\* mutant: the burst never checks the buffer ceiling
BufferFullNever(t) == FALSE

\* if (dataChannel.bufferedAmount >= MAX_BUFFER_SIZE) break
BufferFull(t) == t.bufferedAmount >= MAX_BUFFER_SIZE

\* F of the value of v: v is evaluated once, however often F uses it
With(v, F(_)) == CHOOSE result \in {F(x) : x \in {v}} : TRUE

\* the while loop of sendChunks, `sent` chunks into the burst
RECURSIVE SendLoop(_, _, _, _)
SendLoop(transfer, sent, maxChunks, failAt) ==
    With(transfer, LAMBDA t :
        IF sent < maxChunks /\ t.offset < t.totalSize
        THEN IF BufferFull(t) THEN t
             ELSE IF failAt = sent THEN SendFailed(t)
             ELSE SendLoop(ChunkSent(t), sent + 1, maxChunks, failAt)
        ELSE t)

\* the marker send of sendComplete and its catch
MarkerSent(t) ==
    [t EXCEPT !.bufferedAmount = @ + CompleteSize,
              !.log = Append(@, CompleteMsg),
              !.markerFate = "sent"]
MarkerThrew(t) == [t EXCEPT !.markerFate = "threw"]

\* the closure sendComplete of finalizeTransfer
sendComplete(S, ch, throws) ==
    LET t == S.chan[ch]
    IN  IF t.readyState # "open"
        THEN onComplete([S EXCEPT !.chan[ch].markerFate = "closed"], ch)
        ELSE IF t.bufferedAmount < CompleteThreshold
        THEN onComplete([S EXCEPT !.chan[ch] =
                            IF throws THEN MarkerThrew(t) ELSE MarkerSent(t)], ch)
        ELSE [S EXCEPT !.chan[ch].pending = @ + 1]

\* mutant: finalizeTransfer forgets to set the completed flag
MarkCompletedNot(t) == t

\* transfer.completed = true
MarkCompleted(t) == [t EXCEPT !.completed = TRUE]

finalizeTransfer(S, ch, throws) ==
    sendComplete([S EXCEPT !.chan[ch] = MarkCompleted(S.chan[ch])], ch, throws)

sendChunks(S, ch, maxChunks, out) ==
    With([S EXCEPT !.chan[ch] =
                SendLoop(S.chan[ch], 0, maxChunks, FailAt(out))],
         LAMBDA T :
            IF T.chan[ch].offset >= T.chan[ch].totalSize /\ ~T.chan[ch].completed
            THEN finalizeTransfer(T, ch, out = "markerThrow")
            ELSE T)

\* the filter of tick(): not completed, channel open, buffer below the ceiling
activeTransfers(S) ==
    {ch \in Registered(S) :
        /\ ~S.chan[ch].completed
        /\ S.chan[ch].readyState = "open"
        /\ S.chan[ch].bufferedAmount < MAX_BUFFER_SIZE}

\* mutant: every eligible transfer gets the whole budget
chunksPerTransferWhole(n) == ChunkBudget

\* Math.max(1, Math.floor(16 / activeTransfers.length))
chunksPerTransfer(n) == Max(1, ChunkBudget \div n)

\* for (const transfer of activeTransfers) this.sendChunks(transfer, n): a
\* sendChunks call touches its own channel and Map key only, so the order of
\* the loop does not show in its result
RECURSIVE SendAll(_, _, _, _)
SendAll(state, chs, n, outs) ==
    With(state, LAMBDA S :
        IF chs = {} THEN S
        ELSE LET ch == CHOOSE c \in chs : TRUE
             IN  SendAll(sendChunks(S, ch, n, outs[ch]), chs \ {ch}, n, outs))

\* the sendChunks call that took t0 to t1 ended in the catch: the attempt
\* numbered failAt was reached
Threw(t0, t1, maxChunks, failAt) ==
    /\ failAt # NoFail
    /\ failAt < maxChunks
    /\ t1.chunksSent - t0.chunksSent = failAt
    /\ t0.offset + failAt * CHUNK_SIZE < t0.totalSize
    /\ t0.bufferedAmount + failAt * CHUNK_SIZE < MAX_BUFFER_SIZE

tick(state, outs) ==
    With(state, LAMBDA S :
        IF ~S.isRunning \/ Size(S) = 0
        THEN [S EXCEPT !.isRunning = FALSE]
        ELSE LET act == activeTransfers(S)
                 n == chunksPerTransfer(Cardinality(act))
             IN  With(IF act # {} THEN SendAll(S, act, n, outs) ELSE S,
                      LAMBDA T :
                 LET U == [T EXCEPT !.lastTick =
                            [act |-> act,
                             refused |-> {ch \in act :
                                Threw(S.chan[ch], T.chan[ch], n,
                                      FailAt(outs[ch]))}]]
                     shouldContinue ==
                        \E ch \in Registered(U) : ~U.chan[ch].completed
                 IN  IF shouldContinue
                     THEN [U EXCEPT !.timeoutId = "armed", !.armed = @ + 1]
                     ELSE [U EXCEPT !.isRunning = FALSE]))

\* variant: start() without its isRunning guard
startUnguarded(S, outs) == tick([S EXCEPT !.isRunning = TRUE], outs)

start(S, outs) ==
    IF S.isRunning THEN S ELSE tick([S EXCEPT !.isRunning = TRUE], outs)

addTransfer(S, key, ch, outs) ==
    start([S EXCEPT !.transfers[key] = ch], outs)

\* cleanup(): this.stop(); this.transfers.clear()
cleanup(S) == [stop(S) EXCEPT !.transfers = [k \in Keys |-> NoChan]]

(***************************************************************************)
(* Scheduler: the events of the host page                                  *)
(***************************************************************************)
\* WebRTCHost.initiateFileTransfer: a peer connection and its data channel
InitiateTransfer(ch) ==
    /\ chan[ch].readyState = "new"
    /\ chan' = [chan EXCEPT ![ch].readyState = "connecting"]
    /\ peerConnections' = [peerConnections EXCEPT ![ChanKey[ch]] = ch]
    /\ lastTick' = NoTick
    /\ UNCHANGED <<transfers, isRunning, armed, timeoutId>>

\* dataChannel.onopen: startTransfer sends the metadata message and awaits
\* file.arrayBuffer()
ChannelOpen(ch) ==
    /\ chan[ch].readyState = "connecting"
    /\ chan' = [chan EXCEPT ![ch] =
                    [@ EXCEPT !.readyState = "open",
                              !.phase = "reading",
                              !.bufferedAmount = @ + MetaSize,
                              !.log = Append(@, MetadataMsg)]]
    /\ lastTick' = NoTick
    /\ UNCHANGED <<transfers, isRunning, armed, timeoutId, peerConnections>>

\* the rest of startTransfer, once the file is read: the transfer object and
\* scheduler.addTransfer, which starts the loop and runs a tick if it is idle
NewTransfer(t, key) ==
    [t EXCEPT !.phase = "added", !.totalSize = FileSize[key],
              !.offset = 0, !.chunksSent = 0, !.completed = FALSE]

FileRead(ch, outs) ==
    /\ chan[ch].phase = "reading"
    /\ Becomes(addTransfer(
            [Cur EXCEPT !.chan[ch] = NewTransfer(chan[ch], ChanKey[ch])],
            ChanKey[ch], ch, outs))
    /\ UNCHANGED peerConnections

\* the transport takes what the channel has buffered
Drain(ch) ==
    /\ chan[ch].readyState = "open"
    /\ chan[ch].bufferedAmount > 0
    /\ chan' = [chan EXCEPT ![ch].bufferedAmount = 0]
    /\ lastTick' = NoTick
    /\ UNCHANGED <<transfers, isRunning, armed, timeoutId, peerConnections>>

\* setTimeout(() => this.tick(), 1) fires; latest: it is the timer timeoutId names
TickTimer(outs, latest) ==
    /\ armed > 0
    /\ IF latest THEN timeoutId = "armed"
                 ELSE timeoutId # "armed" \/ armed > 1
    /\ Becomes(tick([Cur EXCEPT !.armed = @ - 1,
                                !.timeoutId = IF latest THEN "fired" ELSE @],
                    outs))
    /\ UNCHANGED peerConnections

\* setTimeout(sendComplete, 10) fires
SendCompleteRetry(ch, throws) ==
    /\ chan[ch].pending > 0
    /\ Becomes(sendComplete([Cur EXCEPT !.chan[ch].pending = @ - 1], ch, throws))
    /\ UNCHANGED peerConnections

\* dataChannel.onclose: removeTransfer(key); pc.close(); peerConnections.delete(key)
OnClose(S, ch) == removeTransfer(S, ChanKey[ch])

\* the channel closes (the peer or the transport closed it) and onclose runs
ChannelClose(ch) ==
    /\ chan[ch].readyState \in {"connecting", "open"}
    /\ Becomes(OnClose([Cur EXCEPT !.chan[ch].readyState = "closed"], ch))
    /\ peerConnections' = [peerConnections EXCEPT ![ChanKey[ch]] = NoChan]

\* the close event of a channel that cleanup's pc.close() closed
CloseEvent(ch) ==
    /\ chan[ch].closeEvent
    /\ Becomes(OnClose([Cur EXCEPT !.chan[ch].closeEvent = FALSE], ch))
    /\ peerConnections' = [peerConnections EXCEPT ![ChanKey[ch]] = NoChan]

\* dataChannel.onerror: scheduler.removeTransfer(key)
ChannelError(ch) ==
    /\ chan[ch].readyState \in {"connecting", "open"}
    /\ Becomes(removeTransfer(Cur, ChanKey[ch]))
    /\ UNCHANGED peerConnections

\* pc.oniceconnectionstatechange with state failed, disconnected or closed
IceStateChange(ch) ==
    /\ chan[ch].readyState \in {"connecting", "open"}
    /\ Becomes(removeTransfer(Cur, ChanKey[ch]))
    /\ UNCHANGED peerConnections

\* the channels of the peer connections WebRTCHost.cleanup closes
Connected == {peerConnections[k] : k \in Keys} \ {NoChan}

\* WebRTCHost.cleanup: scheduler.cleanup(), then every peer connection closed
Cleanup ==
    /\ Connected # {}
    /\ Becomes([cleanup(Cur) EXCEPT !.chan =
            [ch \in DOMAIN chan |->
                IF ch \in Connected /\ chan[ch].readyState \in {"connecting", "open"}
                THEN [chan[ch] EXCEPT !.readyState = "closed", !.closeEvent = TRUE]
                ELSE chan[ch]]])
    /\ peerConnections' = [k \in Keys |-> NoChan]

InitSched ==
    /\ chan = [ch \in Chans |-> NewChan]
    /\ transfers = [k \in Keys |-> NoChan]
    /\ peerConnections = [k \in Keys |-> NoChan]
    /\ isRunning = FALSE
    /\ armed = 0
    /\ timeoutId = "null"
    /\ lastTick = NoTick

NextSched ==
    \/ Cleanup /\ UNCHANGED exceptSched
    \/ \E outs \in [Chans -> Outcomes], latest \in BOOLEAN :
            TickTimer(outs, latest) /\ UNCHANGED exceptSched
    \/ \E ch \in Chans :
        \/ InitiateTransfer(ch) /\ UNCHANGED exceptSched
        \/ ChannelOpen(ch) /\ UNCHANGED exceptSched
        \/ \E outs \in [Chans -> Outcomes] : FileRead(ch, outs) /\ UNCHANGED exceptSched
        \/ Drain(ch) /\ UNCHANGED exceptSched
        \/ \E throws \in BOOLEAN :
                SendCompleteRetry(ch, throws) /\ UNCHANGED exceptSched
        \/ ChannelClose(ch) /\ UNCHANGED exceptSched
        \/ CloseEvent(ch) /\ UNCHANGED exceptSched
        \/ ChannelError(ch) /\ UNCHANGED exceptSched
        \/ IceStateChange(ch) /\ UNCHANGED exceptSched

(***************************************************************************)
(* Scheduler: one tick over any number of eligible transfers.  The tick    *)
(* gives every transfer of activeTransfers one sendChunks call with the    *)
(* same allowance; a call sends from no chunk up to its allowance.         *)
(***************************************************************************)
\* tick(): activeTransfers has n transfers; the loop over them begins
TickBegins(n) ==
    /\ eligible = 0
    /\ eligible' = n
    /\ served' = 0
    /\ total' = 0

\* this.sendChunks(transfer, chunksPerTransfer) returns chunksSent: the loop
\* runs while chunksSent < maxChunks, and may break before
SendChunksCall(sent) ==
    /\ served < eligible
    /\ sent <= chunksPerTransfer(eligible)
    /\ served' = served + 1
    /\ total' = total + sent
    /\ UNCHANGED eligible

\* the loop over activeTransfers is through
TickEnds ==
    /\ eligible > 0
    /\ served = eligible
    /\ eligible' = 0
    /\ UNCHANGED <<served, total>>

InitBudget ==
    /\ eligible = 0
    /\ served = 0
    /\ total = 0

NextBudget ==
    \/ \E n \in 1..MaxEligible : TickBegins(n) /\ UNCHANGED exceptBudget
    \/ \E sent \in 0..ChunkBudget :
            SendChunksCall(sent) /\ UNCHANGED exceptBudget
    \/ TickEnds /\ UNCHANGED exceptBudget

(***************************************************************************)
(* Push coordinator (src/unnamed/part_000): the socket.io handlers         *)
(***************************************************************************)
SocketIds == {"s1", "s2", "s3"}
\* the fileIds of the request-file and download-complete events
PushFileIds == {"f1"}

\* a socket before its connection event is "new", then "connected", then
\* "gone"; roomId, isHost and downloadingFiles are the properties the
\* handlers set on it (tracking: downloadingFiles is defined), joined is
\* socket.rooms without the socket's own room
NewSocket ==
    [status |-> "new", roomId |-> NoId, isHost |-> FALSE, tracking |-> FALSE,
     downloadingFiles |-> {}, joined |-> {}]

\* the room object host-room stores
NewPushRoom(s) ==
    [hostSocketId |-> s, files |-> <<>>, clients |-> <<>>,
     activeDownloads |-> EmptyMap]

PushExists(r) == pushRooms[r] # NoRoom

\* notifyHostPeerCounts(roomId): the counts sent to the host, if any
PeerCountsUpdated(r) ==
    IF PushExists(r)
    THEN [to |-> pushRooms[r].hostSocketId, event |-> "peer-counts-updated",
          counts |-> getFileDownloadCounts(pushRooms[r])]
    ELSE [to |-> NoId, event |-> "none", counts |-> EmptyMap]

\* io.on('connection')
Connect(s) ==
    /\ sockets[s].status = "new"
    /\ sockets' = [sockets EXCEPT ![s].status = "connected"]
    /\ UNCHANGED pushRooms

\* socket.on('host-room'): what the socket is sent back
HostRoomReply(s, r) == [event |-> "room-created", roomId |-> r]

HostRoom(s, r) ==
    /\ sockets[s].status = "connected"
    /\ pushRooms' = [pushRooms EXCEPT ![r] = NewPushRoom(s)]
    /\ sockets' = [sockets EXCEPT ![s] =
            [@ EXCEPT !.joined = {r}, !.roomId = r, !.isHost = TRUE]]

\* socket.on('update-files')
UpdateFiles(s, r, files) ==
    /\ sockets[s].status = "connected"
    /\ pushRooms' = IF PushExists(r) /\ pushRooms[r].hostSocketId = s
                    THEN [pushRooms EXCEPT ![r].files = files]
                    ELSE pushRooms
    /\ UNCHANGED sockets

\* socket.on('join-room'): if (!room || !room.hostSocketId) room-error
JoinRoomRefused(r) == ~PushExists(r)

JoinRoomReply(s, r) ==
    IF JoinRoomRefused(r)
    THEN [event |-> "room-error", roomId |-> r, files |-> <<>>]
    ELSE [event |-> "room-joined", roomId |-> r, files |-> pushRooms[r].files]

JoinRoom(s, r) ==
    /\ sockets[s].status = "connected"
    /\ IF JoinRoomRefused(r)
       THEN UNCHANGED <<pushRooms, sockets>>
       ELSE /\ Len(pushRooms[r].clients) < MaxClientList
            /\ pushRooms' = [pushRooms EXCEPT ![r].clients = Append(@, s)]
            /\ sockets' = [sockets EXCEPT ![s] =
                    [@ EXCEPT !.joined = @ \cup {r}, !.roomId = r,
                              !.isHost = FALSE, !.tracking = TRUE,
                              !.downloadingFiles = {}]]

\* socket.on('request-file')
PushRequestFile(s, r, f) ==
    /\ sockets[s].status = "connected"
    /\ IF PushExists(r)
       THEN /\ pushRooms' = [pushRooms EXCEPT ![r].activeDownloads =
                    MapSet(@, f, Downloaders(pushRooms[r], f) \cup {s})]
            /\ sockets' = [sockets EXCEPT ![s] =
                    [@ EXCEPT !.tracking = TRUE, !.downloadingFiles = @ \cup {f}]]
       ELSE UNCHANGED <<pushRooms, sockets>>

\* socket.on('download-complete')
PushDownloadComplete(s, r, f) ==
    /\ sockets[s].status = "connected"
    /\ IF PushExists(r)
       THEN /\ pushRooms' = [pushRooms EXCEPT ![r].activeDownloads =
                    CompleteDownload(@, s, f)]
            /\ sockets' = [sockets EXCEPT ![s].downloadingFiles = @ \ {f}]
       ELSE UNCHANGED <<pushRooms, sockets>>

\* for (const fileId of socket.downloadingFiles) { clients.delete(socket.id);
\*   if (clients.size === 0) room.activeDownloads.delete(fileId) }
DropTracked(ad, s, fs) ==
    [f \in {g \in DOMAIN ad : ~(g \in fs /\ ad[g] \ {s} = {})} |->
        IF f \in fs THEN ad[f] \ {s} ELSE ad[f]]

\* socket.on('disconnect')
Disconnect(s) ==
    /\ sockets[s].status = "connected"
    /\ sockets' = [sockets EXCEPT ![s].status = "gone", ![s].joined = {}]
    /\ LET r == sockets[s].roomId
       IN  IF r = NoId \/ ~PushExists(r)
           THEN UNCHANGED pushRooms
           ELSE IF sockets[s].isHost
           THEN pushRooms' = [pushRooms EXCEPT ![r] = NoRoom]
           ELSE pushRooms' = [pushRooms EXCEPT ![r] =
                    [@ EXCEPT
                        !.clients = SelectSeq(@, LAMBDA id : id # s),
                        !.activeDownloads =
                            DropTracked(@, s, sockets[s].downloadingFiles)]]

InitPush ==
    /\ pushRooms = [r \in RoomIds |-> NoRoom]
    /\ sockets = [s \in SocketIds |-> NewSocket]

NextPush ==
    \E s \in SocketIds :
        \/ Connect(s) /\ UNCHANGED exceptPush
        \/ Disconnect(s) /\ UNCHANGED exceptPush
        \/ \E r \in RoomIds :
            \/ HostRoom(s, r) /\ UNCHANGED exceptPush
            \/ \E fl \in FileLists :
                    UpdateFiles(s, r, fl) /\ UNCHANGED exceptPush
            \/ JoinRoom(s, r) /\ UNCHANGED exceptPush
            \/ \E f \in PushFileIds :
                \/ PushRequestFile(s, r, f) /\ UNCHANGED exceptPush
                \/ PushDownloadComplete(s, r, f)
                        /\ UNCHANGED exceptPush

(***************************************************************************)
(* Both coordinators driven by the same events.  Every event of a host or  *)
(* a client is given to the poll coordinator as its request and to the     *)
(* push coordinator as its socket event; the host is h1 on socket s1, the  *)
(* clients c1 and c2 are on the sockets s2 and s3.  The clock stands       *)
(* still; a client that left is gone on both sides.                        *)
(***************************************************************************)
LsHost == "h1"
LsHostSocket == "s1"
SocketOf == [c \in ClientIds |-> IF c = "c1" THEN "s2" ELSE "s3"]

\* the sockets connect; the poll transport has no connection
LsConnect(s) == Connect(s) /\ UNCHANGED pollVars

\* the host's poll empties its mailbox; the push coordinator has none
LsHostPoll(r) == HostPoll(r) /\ UNCHANGED pushVars

LsRegisterHost(r) ==
    RegisterHost(r, LsHost) /\ HostRoom(LsHostSocket, r)

LsSetFiles(r, files) ==
    /\ sockets[LsHostSocket].status = "connected"
    /\ SetFiles(r, files)
    /\ UpdateFiles(LsHostSocket, r, files)

LsJoin(r, c) == Join(r, c) /\ JoinRoom(SocketOf[c], r)

LsRequestFile(r, c, f) ==
    /\ HostMailboxBelow(r, MaxMailbox)
    /\ RequestFile(r, c, f)
    /\ PushRequestFile(SocketOf[c], r, f)

LsDownloadComplete(r, c, f) ==
    DownloadComplete(r, c, f) /\ PushDownloadComplete(SocketOf[c], r, f)

\* the client leaves: POST leave, and the disconnect of its socket
LsLeave(r, c) == Leave(r, c) /\ Disconnect(SocketOf[c])

NextLockstep ==
    \/ \E s \in SocketIds : LsConnect(s) /\ UNCHANGED exceptLockstep
    \/ \E r \in RoomIds :
        \/ LsRegisterHost(r) /\ UNCHANGED exceptLockstep
        \/ LsHostPoll(r) /\ UNCHANGED exceptLockstep
        \/ \E files \in FileLists :
                LsSetFiles(r, files) /\ UNCHANGED exceptLockstep
        \/ \E c \in ClientIds :
            \/ LsJoin(r, c) /\ UNCHANGED exceptLockstep
            \/ LsLeave(r, c) /\ UNCHANGED exceptLockstep
            \/ \E f \in PushFileIds :
                \/ LsRequestFile(r, c, f) /\ UNCHANGED exceptLockstep
                \/ LsDownloadComplete(r, c, f) /\ UNCHANGED exceptLockstep

(***************************************************************************)
(* Specifications: one per subsystem, the others standing still            *)
(***************************************************************************)
\* the page before apiService.joinRoom: no list shown
InitPage ==
    /\ lastFilesUpdatedAt = [c \in ClientIds |-> 0]
    /\ filesShown = [c \in ClientIds |-> <<>>]
    /\ downloadingFiles = {}

\* a poll's fetch that has not been issued, or whose response was handled
NoResponse == [status |-> 0]
PollSlots == {"interval", "manual"}

\* no poll of the agent is under way and no signal was handled
InitFlight ==
    /\ inFlight = [slot \in PollSlots |-> NoResponse]
    /\ handled = <<>>

Init ==
    /\ InitPoll /\ InitRelay /\ InitAgent /\ InitSched /\ InitPush
    /\ InitRecv /\ InitBudget /\ InitPage /\ InitFlight
    /\ hasLeft = [c \in ClientIds |-> FALSE]

SpecPoll == Init /\ [][NextPoll]_vars

SpecRelay == Init /\ [][NextRelay]_vars

SpecAgent == Init /\ [][NextAgent]_vars /\ AgentFairness

SpecSched == Init /\ [][NextSched]_vars

\* setTimeout(sendComplete, 10) fires, and the transport keeps taking what an
\* open channel has buffered
SchedFairness ==
    \A ch \in Chans :
        /\ WF_vars(Drain(ch) /\ UNCHANGED exceptSched)
        /\ WF_vars(\E throws \in BOOLEAN :
                SendCompleteRetry(ch, throws)
                    /\ UNCHANGED exceptSched)

SpecSchedFair == Init /\ [][NextSched]_vars /\ SchedFairness

\* setTimeout(() => this.tick(), 1) fires, the transport keeps taking what an
\* open channel has buffered, and a send on an open channel whose buffer has
\* room does not fail for ever
SendsSucceed == [ch \in Chans |-> "ok"]

TickFairness ==
    /\ \A ch \in Chans : WF_vars(Drain(ch) /\ UNCHANGED exceptSched)
    /\ WF_vars(\E latest \in BOOLEAN :
            TickTimer(SendsSucceed, latest) /\ UNCHANGED exceptSched)

SpecTickFair == Init /\ [][NextSched]_vars /\ TickFairness

SpecPush == Init /\ [][NextPush]_vars

SpecRecv == Init /\ [][NextRecv]_vars

SpecBudget == Init /\ [][NextBudget]_vars

SpecLockstep == Init /\ [][NextLockstep]_vars

SpecDownload == Init /\ [][NextDownload]_vars /\ DownloadFairness

(***************************************************************************)
(* Claims about the poll coordinator                                       *)
(***************************************************************************)

\* C1: in every room and for every fileId, activeDownloads[fileId] is exactly
\* the set of clients that issued request-file for that fileId and have had
\* no download-complete for it, no leave and no stale-timeout eviction since
\* (the history variable requested); an empty set is not kept as an entry.
C1_ActiveDownloadsExact ==
    \A r \in RoomIds : Exists(r) =>
        /\ \A f \in FileIds : Downloaders(rooms[r], f) = requested[r][f]
        /\ DOMAIN rooms[r].activeDownloads =
                {f \in FileIds : requested[r][f] # {}}

\* two clients download f1 and one of them f2, some time after the start
C1_Witness ==
    \E r \in RoomIds :
        /\ Exists(r)
        /\ now > StartTime
        /\ Downloaders(rooms[r], "f1") = {"c1", "c2"}
        /\ Downloaders(rooms[r], "f2") = {"c2"}
        /\ DOMAIN rooms[r].clients = {"c2"}

\* C2 as stated: a successful join returns the argument of the last setFiles
\* on that roomId (the empty list if there was none).
C2_JoinFilesById ==
    \A r \in RoomIds, c \in ClientIds :
        JoinResponse(r, c).status = 200 =>
            JoinResponse(r, c).body.files = lastSetById[r]

\* C2 amended: a successful join returns the argument of the last setFiles
\* on that roomId since the room was last created by registerHost (the
\* empty list if there was none since then).
C2_JoinFiles ==
    \A r \in RoomIds, c \in ClientIds :
        JoinResponse(r, c).status = 200 =>
            JoinResponse(r, c).body.files = lastSetLive[r]

\* a joined client of a room whose list was replaced, a join succeeding
C2_Witness ==
    \E r \in RoomIds, c \in ClientIds :
        /\ JoinResponse(r, c).status = 200
        /\ HasClient(rooms[r], c)
        /\ lastSetLive[r] = <<"f2", "f1">>

\* C9: when a sweep tick runs while a room's host liveness timestamp is
\* older than STALE_TIMEOUT, the room does not exist after the tick: join
\* and both polls answer 404, and no session, mailbox or activeDownloads
\* entry of it is left in the registry.
C9_StaleRoomEvicted ==
    [][Sweep =>
        \A r \in RoomIds :
            (Exists(r) /\ now - rooms[r].hostLastSeen > STALE_TIMEOUT) =>
                /\ rooms'[r] = NoRoom
                /\ \A c \in ClientIds :
                    /\ JoinResponse(r, c)'.status = 404
                    /\ ClientPollResponse(r, c)'.status = 404
                /\ HostPollResponse(r)'.status = 404]_vars

\* a room that had files and a downloading client was evicted by the sweep
C9_Witness ==
    \E r \in RoomIds :
        /\ fate[r] = "evicted"
        /\ ~Exists(r)
        /\ lastSetById[r] # <<>>
        /\ swept

\* every client session is in a room with a registered host
SessionsHaveHost ==
    \A r \in RoomIds :
        (Exists(r) /\ DOMAIN rooms[r].clients # {}) => rooms[r].hostId # NoId

\* C10: a join on an absent room or a room without a host identity answers
\* 404 and leaves the registry unchanged, and whenever a client session
\* exists its room has a registered host.
C10_JoinNeedsHost ==
    [][/\ \A r \in RoomIds, c \in ClientIds :
            (JoinRefused(r) /\ Join(r, c)) =>
                (JoinResponse(r, c).status = 404 /\ rooms' = rooms)
       /\ SessionsHaveHost']_vars

\* poll coordinator: a registerHost with the identity the room already has,
\* or a join of a client the room already has, succeeds and changes nothing
\* but the liveness timestamp
PollIdempotentStep ==
    \A r \in RoomIds :
        /\ \A h \in HostIds :
            (Exists(r) /\ rooms[r].hostId = h /\ RegisterHost(r, h)) =>
                /\ RegisterHostResponse(r, h).status = 200
                /\ rooms' = [rooms EXCEPT ![r].hostLastSeen = now]
        /\ \A c \in ClientIds :
            (Exists(r) /\ HasClient(rooms[r], c) /\ Join(r, c)) =>
                /\ JoinResponse(r, c).status = 200 \/ JoinRefused(r)
                /\ ~JoinRefused(r) =>
                    rooms' = [rooms EXCEPT ![r].clients[c].lastSeen = now]

(***************************************************************************)
(* Claims about the scheduler                                              *)
(***************************************************************************)
\* the transfer objects startTransfer has created
Transfers == {ch \in Chans : chan[ch].phase = "added"}

\* the data chunks and the completion markers of a channel's log, in order
ChunksOf(log) == SelectSeq(log, LAMBDA m : m.type = "chunk")
MarkersOf(log) == SelectSeq(log, LAMBDA m : m.type = "complete")

\* ceil(S / c)
CeilDiv(S, c) == (S + c - 1) \div c

\* the k-th slice of a file of S bytes: [k*65536, min((k+1)*65536, S))
Slice(k, S) ==
    ChunkMsg(k * 65536, IF (k + 1) * 65536 < S THEN (k + 1) * 65536 ELSE S)

\* C3: for every transfer object, offset never decreases in any step (tick,
\* failed send, removal, channel event), and 0 <= offset <= totalSize in
\* every reachable state.
C3_OffsetMonotone ==
    /\ [](\A ch \in Transfers :
            0 <= chan[ch].offset /\ chan[ch].offset <= chan[ch].totalSize)
    /\ [][\A ch \in Chans : chan'[ch].offset >= chan[ch].offset]_vars

\* a transfer stopped by a failed send after two chunks, part way through
\* its file, and removed from the scheduler while its channel is open
C3_Witness ==
    \E ch \in Transfers :
        /\ chan[ch].offset = 2 * CHUNK_SIZE
        /\ chan[ch].offset < chan[ch].totalSize
        /\ chan[ch].readyState = "open"
        /\ transfers[ChanKey[ch]] = NoChan

\* the marker is sent at most once on a channel, only when offset = totalSize
\* and the transfer is completed, and after every data chunk of the transfer
MarkerSafe(t) ==
    /\ Len(MarkersOf(t.log)) <= 1
    /\ Len(MarkersOf(t.log)) = 1 =>
        /\ t.phase = "added"
        /\ t.offset = t.totalSize
        /\ t.completed
        /\ t.log[Len(t.log)] = CompleteMsg
        /\ Len(ChunksOf(t.log)) = CeilDiv(t.totalSize, CHUNK_SIZE)

\* C4 as stated: the marker is never sent twice and never while
\* offset < totalSize, it follows every data chunk, and a transfer whose
\* completion callback has run had it sent exactly once.
C4_MarkerExactlyOnce ==
    \A ch \in Chans :
        /\ MarkerSafe(chan[ch])
        /\ chan[ch].callbacks > 0 => Len(MarkersOf(chan[ch].log)) = 1

\* C4 amended: the marker is sent at most once, only when offset = totalSize,
\* and after every data chunk; when the completion callback runs it has been
\* sent exactly once unless the channel was found not open or the send
\* threw, and then it is never sent.
C4_MarkerAtMostOnce ==
    \A ch \in Chans :
        /\ MarkerSafe(chan[ch])
        /\ chan[ch].callbacks > 0 =>
            /\ chan[ch].markerFate \in {"sent", "threw", "closed"}
            /\ Len(MarkersOf(chan[ch].log)) = 1 <=> chan[ch].markerFate = "sent"
        /\ chan[ch].callbacks = 0 => chan[ch].markerFate = "none"

\* the 33-chunk transfer finished: its marker is the last message sent
C4_Witness ==
    \E ch \in Transfers :
        /\ chan[ch].totalSize = MAX_BUFFER_SIZE + CHUNK_SIZE
        /\ chan[ch].callbacks = 1
        /\ chan[ch].markerFate = "sent"
        /\ chan[ch].log[Len(chan[ch].log)] = CompleteMsg

Allotment(N) == IF 16 \div N > 1 THEN 16 \div N ELSE 1

\* the chunks ch sent in this step
SentNow(ch) == chan'[ch].chunksSent - chan[ch].chunksSent

\* eligible when the tick starts: not completed, channel open, buffer below
\* the ceiling (a transfer object created in this step starts not completed)
Eligible(ch) ==
    /\ ~chan[ch].completed
    /\ chan[ch].readyState = "open"
    /\ chan[ch].bufferedAmount < MAX_BUFFER_SIZE

\* ch has data for n more chunks, and its buffer is below the ceiling before
\* each of n sends
FullBurst(ch, n) ==
    /\ CeilDiv(chan'[ch].totalSize - chan[ch].offset, CHUNK_SIZE) >= n
    /\ chan[ch].bufferedAmount + (n - 1) * CHUNK_SIZE < MAX_BUFFER_SIZE

\* the transfers registered when the tick of this step starts
RegisteredAtTick ==
    {ch \in Chans :
        \/ transfers[ChanKey[ch]] = ch
        \/ chan[ch].phase = "reading" /\ chan'[ch].phase = "added"}

\* C6 as stated: a tick gives each of its N >= 1 eligible transfers the
\* allotment max(1, floor(16/N)); none sends more, and one with enough data
\* whose buffer stays below the ceiling sends exactly that many chunks.
C6_FullAllotment ==
    [][lastTick'.act # {} =>
        LET n == Allotment(Cardinality(lastTick'.act))
        IN  /\ n >= 1
            /\ lastTick'.act = {ch \in RegisteredAtTick : Eligible(ch)}
            /\ \A ch \in lastTick'.act :
                /\ SentNow(ch) <= n
                /\ FullBurst(ch, n) => SentNow(ch) = n]_vars

\* C6 amended: the same, for a transfer with enough data whose buffer stays
\* below the ceiling and none of whose sends in the tick throws.
C6_FullAllotmentUnlessRefused ==
    [][lastTick'.act # {} =>
        LET n == Allotment(Cardinality(lastTick'.act))
        IN  /\ n >= 1
            /\ lastTick'.act = {ch \in RegisteredAtTick : Eligible(ch)}
            /\ \A ch \in lastTick'.act :
                /\ SentNow(ch) <= n
                /\ (FullBurst(ch, n) /\ ch \notin lastTick'.refused) =>
                        SentNow(ch) = n]_vars

\* a tick with two eligible transfers and no failed send: the large one sent
\* its 8 chunks, the small one the 4 it has
C6_Witness ==
    /\ lastTick.act = Chans
    /\ lastTick.refused = {}
    /\ \E ch \in Chans : chan[ch].chunksSent = 8 /\ chan[ch].offset = 8 * CHUNK_SIZE
    /\ \E ch \in Chans : chan[ch].chunksSent = 4 /\ chan[ch].completed

\* C7 as stated: after any send of the scheduler on a channel, the channel's
\* bufferedAmount is at most MAX_BUFFER_SIZE.
C7_BufferWithinCeiling ==
    \A ch \in Chans : chan[ch].bufferedAmount <= MAX_BUFFER_SIZE

\* C7 amended: the scheduler sends no data chunk on a channel whose
\* bufferedAmount is MAX_BUFFER_SIZE or more, so after any of its sends the
\* channel's bufferedAmount is below MAX_BUFFER_SIZE + CHUNK_SIZE.
C7_BufferBelowCeilingPlusChunk ==
    /\ [](\A ch \in Chans :
            chan[ch].bufferedAmount < MAX_BUFFER_SIZE + CHUNK_SIZE)
    /\ [][\A ch \in Chans :
            chan'[ch].chunksSent > chan[ch].chunksSent =>
                /\ chan[ch].bufferedAmount < MAX_BUFFER_SIZE
                /\ chan'[ch].bufferedAmount - CHUNK_SIZE < MAX_BUFFER_SIZE]_vars

\* a burst that ended above the ceiling, with data left to send
C7_Witness ==
    \E ch \in Transfers :
        /\ chan[ch].bufferedAmount > MAX_BUFFER_SIZE
        /\ chan[ch].offset < chan[ch].totalSize
        /\ ~chan[ch].completed

(***************************************************************************)
(* Claims about both coordinators                                          *)
(***************************************************************************)
\* push coordinator: a host-room of a socket on the room its own host-room
\* has just created, or a join-room of a socket the room's clients array
\* already holds, succeeds and leaves the room as it was
PushIdempotentStep ==
    \A r \in RoomIds, s \in SocketIds :
        /\ (pushRooms[r] = NewPushRoom(s) /\ HostRoom(s, r)) =>
                /\ HostRoomReply(s, r).event = "room-created"
                /\ pushRooms'[r] = pushRooms[r]
        /\ (/\ PushExists(r)
            /\ \E i \in DOMAIN pushRooms[r].clients : pushRooms[r].clients[i] = s
            /\ JoinRoom(s, r)) =>
                /\ JoinRoomReply(s, r).event = "room-joined"
                /\ pushRooms'[r] = pushRooms[r]

\* C8: a second registerHost, or a second joinClient, with the same identity
\* succeeds and leaves the room with the same host, file list, client
\* sessions (no duplicate entry), mailboxes and activeDownloads; only
\* liveness timestamps may differ.  Both coordinators.
C8_Idempotent == [][PollIdempotentStep /\ PushIdempotentStep]_vars


(***************************************************************************)
(* C11: a room comes into existence only through registerHost.  On a       *)
(* roomId that is absent, setFiles, relaySignal, request-file,             *)
(* download-complete, the host poll and the client poll each answer 404    *)
(* (room not found) and leave the whole registry unchanged; leave and      *)
(* close on an absent roomId create nothing either; and a step after       *)
(* which the room exists is a registerHost.                                *)
(***************************************************************************)
AbsentRefused(r) ==
    /\ SetFilesResponse(r).status = 404
    /\ SignalResponse(r).status = 404
    /\ RequestFileResponse(r).status = 404
    /\ DownloadCompleteResponse(r).status = 404
    /\ HostPollResponse(r).status = 404
    /\ \A c \in ClientIds : ClientPollResponse(r, c).status = 404

AbsentUntouched(r) ==
    /\ \A fl \in FileLists : SetFiles(r, fl) => rooms' = rooms
    /\ \A i \in RelayInputs, f \in SignalFiles :
            Signal(r, i[1], i[2], i[3], "sdp", f) => rooms' = rooms
    /\ HostPoll(r) => rooms' = rooms
    /\ Close(r) => rooms' = rooms
    /\ \A c \in ClientIds :
            /\ ClientPoll(r, c) => rooms' = rooms
            /\ Leave(r, c) => rooms' = rooms
            /\ \A f \in FileIds :
                    /\ RequestFile(r, c, f) => rooms' = rooms
                    /\ DownloadComplete(r, c, f) => rooms' = rooms

C11_RoomOnlyByRegisterHost ==
    [][\A r \in RoomIds : ~Exists(r) =>
        /\ AbsentRefused(r)
        /\ AbsentUntouched(r)
        /\ Exists(r)' => \E h \in HostIds \cup {NoId} : RegisterHost(r, h)]_vars

\* a request was answered 404 on a roomId whose room had been closed
C11_Witness ==
    \E r \in RoomIds : ~Exists(r) /\ fate[r] = "closed" /\ lastStatus = 404

(***************************************************************************)
(* C12: relaySignal on an existing room appends the signal to exactly one  *)
(* mailbox or to none: to the host mailbox if toId equals the room's       *)
(* current hostId or the sentinel 'host'; otherwise to the mailbox of the  *)
(* client session toId if that session exists; otherwise the signal is     *)
(* dropped and success is still reported.  Every other mailbox, the file   *)
(* list, the client set and activeDownloads are unchanged.                 *)
(***************************************************************************)
\* the room but for its mailboxes
Frame(room) ==
    [hostId |-> room.hostId, hostLastSeen |-> room.hostLastSeen,
     files |-> room.files, filesUpdatedAt |-> room.filesUpdatedAt,
     activeDownloads |-> room.activeDownloads,
     clients |-> [c \in DOMAIN room.clients |-> room.clients[c].lastSeen]]

\* the mailboxes of the room, by name
Boxes(room) ==
    [m \in {"host"} \cup DOMAIN room.clients |->
        IF m = "host" THEN room.hostSignals ELSE room.clients[m].signals]

RelayedTo(r, to, sig) ==
    LET old == Boxes(rooms[r])
        new == Boxes(rooms'[r])
        tgt == IF to = rooms[r].hostId \/ to = "host" THEN {"host"}
               ELSE IF to \in DOMAIN rooms[r].clients THEN {to}
               ELSE {}
    IN  /\ SignalResponse(r).status = 200
        /\ Exists(r)'
        /\ Frame(rooms'[r]) = Frame(rooms[r])
        /\ DOMAIN new = DOMAIN old
        /\ \A m \in DOMAIN old :
                new[m] = IF m \in tgt THEN Append(old[m], sig) ELSE old[m]

C12_SignalToOneMailbox ==
    [][\A r \in RoomIds : Exists(r) =>
        \A i \in RelayInputs, f \in SignalFiles :
            Signal(r, i[1], i[2], i[3], "sdp", f) =>
                RelayedTo(r, i[2], MkSignal(i[1], i[3], "sdp", f))]_vars

\* signals were relayed to the host by its id and to client c1, client c2
\* has a session, and the last request was answered with success
C12_Witness ==
    \E r \in RoomIds :
        /\ Exists(r)
        /\ lastStatus = 200
        /\ MkSignal("c1", "answer", "sdp", "f1") \in
                {rooms[r].hostSignals[k] : k \in DOMAIN rooms[r].hostSignals}
        /\ HasClient(rooms[r], "c1") /\ HasClient(rooms[r], "c2")
        /\ rooms[r].clients["c1"].signals # <<>>
        /\ rooms[r].clients["c2"].signals = <<>>

(***************************************************************************)
(* C13: mailbox delivery is at-most-once.  Every signal appended to a      *)
(* mailbox is returned by at most one poll response; the polled mailbox is *)
(* empty immediately after the poll; and a signal relayed around a poll is *)
(* either in that poll's response or still in the mailbox afterwards,      *)
(* never lost and never returned twice.  (The handlers run to completion   *)
(* one at a time, so a relay concurrent with a poll is a relay before it   *)
(* or after it.)                                                           *)
(***************************************************************************)
\* how many times signal s occurs in the sequence q
Count(q, s) == Cardinality({k \in DOMAIN q : q[k] = s})

Elems(q) == {q[k] : k \in DOMAIN q}

\* each signal appended to a mailbox was returned or is pending, once in all
Conserved(r, m) ==
    \A s \in Elems(accepted[r][m]) \cup Elems(returned[r][m]) \cup Elems(Pending(r, m)) :
        Count(accepted[r][m], s) = Count(returned[r][m], s) + Count(Pending(r, m), s)

\* a poll answers with the mailbox and leaves it empty
PollEmpties(r) ==
    /\ HostPoll(r) =>
            /\ HostPollResponse(r).body.signals = Pending(r, "host")
            /\ Pending(r, "host")' = <<>>
    /\ \A c \in ClientIds : ClientPoll(r, c) =>
            /\ ClientPollResponse(r, c).body.signals = Pending(r, c)
            /\ Pending(r, c)' = <<>>

C13_AtMostOnce ==
    /\ [](\A r \in RoomIds, m \in Mailboxes : Conserved(r, m))
    /\ [][\A r \in RoomIds : Exists(r) => PollEmpties(r)]_vars

\* a signal relayed to the host before a poll was returned by it, and one
\* relayed after it is in the mailbox
C13_Witness ==
    \E r \in RoomIds :
        /\ returned[r]["host"] # <<>>
        /\ Pending(r, "host") # <<>>
        /\ Len(accepted[r]["host"]) = Len(returned[r]["host"]) + Len(Pending(r, "host"))

(***************************************************************************)
(* C14: signals are delivered in FIFO order within one mailbox.  If s1 was *)
(* appended to a mailbox before s2, then s1 is returned in an earlier poll *)
(* response than s2 or earlier in the same response: the signals appended  *)
(* to a mailbox, in the order of their appending, are the signals its      *)
(* polls returned, in the order of their returning, followed by the        *)
(* mailbox.                                                                *)
(***************************************************************************)
C14_MailboxFifo ==
    \A r \in RoomIds, m \in Mailboxes :
        accepted[r][m] = returned[r][m] \o Pending(r, m)

\* two different signals relayed to client c1 were both returned to it
C14_Witness ==
    \E r \in RoomIds :
        /\ Len(returned[r]["c1"]) >= 2
        /\ returned[r]["c1"][1] # returned[r]["c1"][2]

(***************************************************************************)
(* C15: each successful request-file (the room exists) makes clientId a    *)
(* member of activeDownloads[fileId], a repeated request adding no second  *)
(* membership, and appends exactly one file-request signal carrying        *)
(* fromId = clientId and that fileId to the host mailbox; it changes no    *)
(* client mailbox, no client session and not the file list.                *)
(***************************************************************************)
FileRequested(r, c, f) ==
    LET old == rooms[r]
        new == rooms'[r]
    IN  /\ RequestFileResponse(r).status = 200
        /\ Exists(r)'
        /\ \A g \in FileIds :
                Downloaders(new, g) =
                    IF g = f THEN Downloaders(old, g) \cup {c} ELSE Downloaders(old, g)
        /\ new.hostSignals = Append(old.hostSignals,
                [type |-> "file-request", fromId |-> c, fileId |-> f])
        /\ new.clients = old.clients
        /\ new.files = old.files
        /\ new.filesUpdatedAt = old.filesUpdatedAt
        /\ new.hostId = old.hostId
        /\ new.hostLastSeen = old.hostLastSeen

C15_RequestFileTracksAndSignals ==
    [][\A r \in RoomIds : Exists(r) =>
        \A c \in ClientIds, f \in FileIds :
            RequestFile(r, c, f) => FileRequested(r, c, f)]_vars

\* client c1 asked twice for file f1: one membership, two file-request
\* signals in the host mailbox
C15_Witness ==
    \E r \in RoomIds :
        /\ Exists(r)
        /\ Downloaders(rooms[r], "f1") = {"c1"}
        /\ rooms[r].hostSignals = <<FileRequest("c1", "f1"), FileRequest("c1", "f1")>>

(***************************************************************************)
(* C16: once closed or evicted, a room is never resurrected.  A closed or  *)
(* evicted room is absent, and a later registerHost with the same roomId   *)
(* yields a room with an empty file list, no client sessions, an empty     *)
(* host mailbox and empty activeDownloads: no signal, session, file entry  *)
(* or download-tracking entry of the earlier incarnation is observable     *)
(* through the new room.                                                   *)
(***************************************************************************)
Gone(r) == fate[r] \in {"closed", "evicted"}

\* the room exists and neither holds nor answers with anything
Fresh(r) ==
    /\ Exists(r)
    /\ rooms[r].files = <<>>
    /\ rooms[r].filesUpdatedAt = 0
    /\ DOMAIN rooms[r].clients = {}
    /\ rooms[r].hostSignals = <<>>
    /\ \A f \in FileIds : Downloaders(rooms[r], f) = {}
    /\ HostPollResponse(r).body.signals = <<>>
    /\ HostPollResponse(r).body.clientCount = 0
    /\ HostPollResponse(r).body.clients = {}
    /\ getFileDownloadCounts(rooms[r]) = getFileDownloadCounts(NewRoom(NoId, 0))
    /\ \A c \in ClientIds :
            /\ ClientPollResponse(r, c).body.signals = <<>>
            /\ ClientPollResponse(r, c).body.files = <<>>
            /\ ~JoinRefused(r) => JoinResponse(r, c).body.files = <<>>

C16_NoResurrection ==
    /\ [](\A r \in RoomIds : Gone(r) => ~Exists(r))
    /\ [][\A r \in RoomIds : Gone(r) =>
            \A h \in HostIds \cup {NoId} : RegisterHost(r, h) => Fresh(r)']_vars

\* a room whose file list had been set was closed or evicted, and a room
\* registered since under the same roomId shows nothing of it
C16_Witness ==
    \E r \in RoomIds :
        /\ lastSetById[r] # <<>>
        /\ Fresh(r)
        /\ fate[r] = "live"

(***************************************************************************)
(* C17: after a room is closed or evicted, every client that was joined to *)
(* it and keeps polling eventually observes room-not-found or host-offline *)
(* (its agent emits host-disconnected and stops polling), for every        *)
(* interleaving of the close or eviction with the client's polls and with  *)
(* later host registrations of the same roomId.                            *)
(***************************************************************************)
C17_ClientLearnsHostGone ==
    \A c \in ClientIds : orphaned[c] ~> (agent[c] = "stopped")

(***************************************************************************)
(* C18: whenever a transfer's data channel has errored or closed, its      *)
(* transfer is deregistered and stays deregistered: in no reachable state  *)
(* does the scheduler hold a transfer whose channel has already closed,    *)
(* also when the close happens between the channel's opening and           *)
(* startTransfer's reaching addTransfer after its asynchronous file read.  *)
(***************************************************************************)
C18_NoTransferOnClosedChannel ==
    \A key \in Keys :
        transfers[key] # NoChan => chan[transfers[key]].readyState # "closed"

(***************************************************************************)
(* C19: after removeTransfer(key) (or the scheduler's cleanup) has run for *)
(* a transfer, the scheduler sends nothing further on that transfer's      *)
(* channel: no chunk and no 'complete' marker, even if a tick timer or a   *)
(* deferred marker retry was pending when the transfer was removed.        *)
(***************************************************************************)
\* the transfer of channel ch was added to the scheduler and is no longer in it
Deregistered(ch) == chan[ch].phase = "added" /\ transfers[ChanKey[ch]] # ch

C19_SilentAfterRemoval ==
    [][\A ch \in Chans : Deregistered(ch) => chan'[ch].log = chan[ch].log]_vars

(***************************************************************************)
(* C20: every transfer whose offset reaches totalSize has its completion   *)
(* callback invoked exactly once, only after the marker was sent or the    *)
(* channel was found not open, and is then deregistered; this eventually   *)
(* happens provided bufferedAmount eventually drops below 1000 or the      *)
(* channel leaves the open state.                                          *)
(***************************************************************************)
\* a transfer at offset = totalSize is finalized; its callback runs at most
\* once, for a finalized transfer only, after one of the outcomes in fates,
\* and leaves the transfer out of the scheduler
CompletionSafe(ch, fates) ==
    /\ (chan[ch].phase = "added" /\ chan[ch].offset = chan[ch].totalSize)
            => chan[ch].completed
    /\ chan[ch].callbacks <= 1
    /\ chan[ch].callbacks = 1 =>
            /\ chan[ch].completed
            /\ chan[ch].markerFate \in fates
            /\ transfers[ChanKey[ch]] # ch
    /\ chan[ch].callbacks = 0 => chan[ch].markerFate = "none"

Completes(ch) == chan[ch].completed ~> (chan[ch].callbacks = 1)

\* C20 as stated: the callback runs exactly once, only after the marker was
\* sent or the channel was found not open, the transfer is then out of the
\* scheduler, and under the fairness of SpecSchedFair this comes to happen
C20_CompletionAfterMarker ==
    /\ [](\A ch \in Chans : CompletionSafe(ch, {"sent", "closed"}))
    /\ \A ch \in Chans : Completes(ch)

\* what the scheduler does guarantee: the same with the callback running also
\* after a marker send that threw
CompletionAfterMarkerAttempt ==
    /\ [](\A ch \in Chans : CompletionSafe(ch, {"sent", "threw", "closed"}))
    /\ \A ch \in Chans : Completes(ch)


(***************************************************************************)
(* Claims about the receiver, the client agent, the two coordinators in   *)
(* step, and the scheduling loop                                           *)
(***************************************************************************)
\* the sum of the lengths of binary messages
RECURSIVE SumLen(_)
SumLen(msgs) == IF msgs = <<>> THEN 0 ELSE Len(Head(msgs)) + SumLen(Tail(msgs))

\* the step is a run of downloadFile for f that got past its guard
Downloads(f) == completions'[f] # completions[f]

(* C21: on 'complete' for a fileId whose metadata was received, the        *)
(* artifact is the concatenation of every binary message accepted into     *)
(* that buffer, in arrival order, receivedSize is the sum of their         *)
(* lengths, the completion callback is called once, and the buffer is      *)
(* discarded: while the fileId has no buffer, a chunk or a second          *)
(* 'complete' for it has no effect.                                        *)
C21_CompleteAssembles ==
    [][\A f \in RecvFiles :
        /\ (/\ HasBuffer(f)
            /\ fileBuffers[f].metadata # "null"
            /\ handleMessage(f, StringMsg("complete")))
                => /\ completions'[f] = completions[f] + 1
                   /\ saved'[f] = Append(saved[f], Blob(received[f]))
                   /\ fileBuffers[f].receivedSize = SumLen(received[f])
                   /\ ~HasBuffer(f)'
        /\ Downloads(f) =>
                /\ HasBuffer(f)
                /\ fileBuffers[f].metadata # "null"
                /\ Len(saved'[f]) = Len(saved[f]) + 1
        /\ \A m \in RecvMsgs :
            (~HasBuffer(f) /\ handleMessage(f, m)) => UNCHANGED recvVars]_vars

\* a file was saved from two chunks received in the order <<1, 2>>, <<3>>,
\* and its buffer is gone
C21_Witness ==
    \E f \in RecvFiles :
        /\ saved[f] = << <<1, 2, 3>> >>
        /\ completions[f] = 1
        /\ ~HasBuffer(f)


\* the client's download of f is through (downloadFile ran), and the room
\* still has the client among the file's downloaders
CountedAfterDownload(r, f) ==
    /\ completions[f] >= 1
    /\ Exists(r)
    /\ DlClient \in Downloaders(rooms[r], f)

(* C22: end to end on the poll transport, after the receiver has finished a *)
(* download (downloadFile has run) the coordinator eventually gets          *)
(* download-complete: activeDownloads[fileId] no longer holds the client,   *)
(* and the host's next peerCounts no longer counts it.                      *)
C22_DownloadCompleteArrives ==
    \A r \in RoomIds, f \in DlFiles :
        CountedAfterDownload(r, f) ~>
            /\ ~CountedAfterDownload(r, f)
            /\ Exists(r) => f \notin DOMAIN HostPollResponse(r).body.peerCounts


\* the messages the host has sent on a channel are one 'metadata', then
\* chunks of at most CHUNK_SIZE bytes, then at most one 'complete'
WellFramed(log) ==
    log # <<>> =>
        /\ log[1] = MetadataMsg
        /\ \A i \in 2..Len(log) :
            /\ log[i].type \in {"chunk", "complete"}
            /\ log[i].type = "chunk" =>
                    /\ log[i].to - log[i].from <= CHUNK_SIZE
                    /\ log[i].to - log[i].from > 0
            /\ log[i].type = "complete" => i = Len(log)

(* C23: on every data channel the sequence of messages the host sends is   *)
(* exactly one 'metadata' first, then zero or more binary chunks of at     *)
(* most 65536 bytes each, then at most one 'complete'; nothing is sent     *)
(* after 'complete' and no chunk before 'metadata'.                        *)
C23_HostMessageOrder ==
    /\ \A ch \in Chans : WellFramed(chan[ch].log)
    /\ CHUNK_SIZE = 65536

\* a channel carried the metadata, a full chunk, a last shorter chunk and
\* the marker
C23_Witness ==
    \E ch \in Chans :
        LET log == chan[ch].log
        IN  /\ Len(log) >= 4
            /\ log[Len(log)] = CompleteMsg
            /\ log[2].to - log[2].from = CHUNK_SIZE
            /\ log[Len(log) - 1].to - log[Len(log) - 1].from < CHUNK_SIZE


(* C24: room-not-found and host-offline are terminal for the client agent: *)
(* once a poll response carries an error or hostOnline = false, the agent  *)
(* has emitted host-disconnected exactly once and issues no further poll   *)
(* request, the polls of requestFile's delayed trigger and of triggerPoll  *)
(* included.                                                               *)
C24_HostGoneIsTerminal ==
    \A c \in ClientIds :
        agent[c] = "stopped" => disconnects[c] = 1 /\ latePolls[c] = 0


\* a join of the client at this point gets the same answer from both
\* coordinators: refused by both, or the same file list from both
SameJoin(r, c) ==
    LET polled == JoinResponse(r, c)
        pushed == JoinRoomReply(SocketOf[c], r)
    IN  IF polled.status = 404
        THEN pushed.event = "room-error"
        ELSE pushed.event = "room-joined" /\ pushed.files = polled.body.files

\* the host is shown the same count for every file by both coordinators
SameCounts(r) ==
    (Exists(r) /\ PushExists(r)) =>
        \A f \in PushFileIds :
            Cardinality(Downloaders(rooms[r], f))
                = Cardinality(Downloaders(pushRooms[r], f))

(* C25: the push and the poll coordinator, driven by the same sequence of  *)
(* host-register, set-files, join, request-file, download-complete and     *)
(* client leave/disconnect events, expose the same file list to a joining  *)
(* client and the same per-file active-download counts to the host after   *)
(* every step.                                                             *)
C25_CoordinatorsAgree ==
    \A r \in RoomIds :
        /\ SameCounts(r)
        /\ \A c \in ClientIds :
            sockets[SocketOf[c]].status = "connected" => SameJoin(r, c)


(* C26: whenever the scheduler has no registered transfer it is fully      *)
(* idle: isRunning is false and no tick timer is armed.  This holds after  *)
(* every removeTransfer, cleanup and tick, in every interleaving with      *)
(* addTransfer.                                                            *)
C26_IdleWhenEmpty ==
    Size(Cur) = 0 => ~isRunning /\ armed = 0

\* the scheduler is empty again after a transfer was removed part way
\* through its file, the timer armed for its next tick
C26_Witness ==
    /\ Size(Cur) = 0
    /\ \E ch \in Chans :
        /\ chan[ch].phase = "added"
        /\ chan[ch].chunksSent > 0
        /\ ~chan[ch].completed

\* some registered transfer is not completed
Unfinished == \E ch \in Registered(Cur) : ~chan[ch].completed

(* C30: there is a single scheduling loop: in every reachable state at     *)
(* most one tick timer is armed, for every interleaving of addTransfer,    *)
(* removeTransfer, cleanup, tick and the deferred completion callbacks.    *)
C30_SingleLoop ==
    /\ armed <= 1
    /\ armed = 1 <=> timeoutId = "armed"


\* the transfer of the channel is registered, not completed, and its channel
\* is open
Live(ch) ==
    /\ ch \in Registered(Cur)
    /\ ~chan[ch].completed
    /\ chan[ch].readyState = "open"

\* the step advances the offset of the channel's transfer
Advances(ch) == chan'[ch].offset > chan[ch].offset

(* C27: whenever at least one registered transfer is not completed the     *)
(* loop is live: isRunning is true and a tick is armed (or executing), so  *)
(* that an incomplete transfer whose channel is open, and whose buffer     *)
(* drains below the ceiling, eventually has its offset advanced; a         *)
(* transfer added while the loop is idle restarts it.  The transfer does   *)
(* not stay registered, incomplete and open for ever without a step that   *)
(* advances its offset.                                                    *)
C27_LoopLive ==
    /\ [](Unfinished => isRunning /\ armed = 1)
    /\ \A ch \in Chans :
        \/ []<>(~Live(ch))
        \/ []<><<Advances(ch)>>_vars

\* the loop runs for a transfer that filled its channel's buffer to the
\* ceiling and waits for it to drain
C27_Witness ==
    \E ch \in Chans :
        /\ Live(ch)
        /\ chan[ch].bufferedAmount >= MAX_BUFFER_SIZE
        /\ isRunning
        /\ armed = 1


\* one timer is armed with one transfer removed by its completion callback
\* and the other, added since, still under way
C30_Witness ==
    /\ armed = 1
    /\ \E ch \in Chans : chan[ch].callbacks = 1 /\ ch \notin Registered(Cur)
    /\ \E ch \in Registered(Cur) : ~chan[ch].completed /\ chan[ch].chunksSent > 0


\* the first chunk the channel sends in this step, if it sends one
FirstSentNow(ch) == ChunksOf(chan'[ch].log)[chan[ch].chunksSent + 1]

(* C28: a failed send is not fatal and loses nothing.  When a send throws  *)
(* inside sendChunks, offset and chunksSent are left as the sends before   *)
(* it in the burst made them, the transfer stays registered and not        *)
(* completed, its turn in this tick ends, the loop goes on, and the slice  *)
(* at the unchanged offset is the next one sent on the channel.            *)
C28_FailedSendLosesNothing ==
    [][\A ch \in Chans :
        /\ ch \in lastTick'.refused =>
            /\ SentNow(ch) < chunksPerTransfer(Cardinality(lastTick'.act))
            /\ chan'[ch].offset = chan[ch].offset + SentNow(ch) * CHUNK_SIZE
            /\ chan'[ch].offset < chan'[ch].totalSize
            /\ Len(ChunksOf(chan'[ch].log)) = chan'[ch].chunksSent
            /\ transfers'[ChanKey[ch]] = ch
            /\ ~chan'[ch].completed
            /\ isRunning' /\ armed' = 1
        /\ (chan[ch].phase = "added" /\ SentNow(ch) > 0) =>
            FirstSentNow(ch) =
                ChunkMsg(chan[ch].offset,
                         Min(chan[ch].offset + CHUNK_SIZE, chan[ch].totalSize))
      ]_vars

\* a send threw on the third attempt of a burst: two chunks are out, the
\* transfer is registered at the offset of the third
C28_Witness ==
    \E ch \in lastTick.refused :
        /\ chan[ch].chunksSent = 2
        /\ chan[ch].offset = 2 * CHUNK_SIZE
        /\ transfers[ChanKey[ch]] = ch


(* C29 as stated: for any number N of eligible transfers, the data chunks  *)
(* one tick sends across all transfers never exceed the budget of 16.      *)
C29_BudgetRespected == total <= ChunkBudget

(* C29, amended: the data chunks one tick sends across its N eligible      *)
(* transfers never exceed 16 while N <= 16; for N > 16 every transfer is   *)
(* still allowed one chunk, and the tick sends at most N.                  *)
C29_BudgetOrOneEach ==
    eligible > 0 =>
        /\ total <= Max(ChunkBudget, eligible)
        /\ total <= served * chunksPerTransfer(eligible)
        /\ eligible <= ChunkBudget => total <= ChunkBudget

\* a tick over 17 eligible transfers has sent one chunk for each
C29_Witness ==
    /\ eligible = ChunkBudget + 1
    /\ served = eligible
    /\ total = eligible


(***************************************************************************)
(* Claims about failures, retries, repeated offers, the two coordinators'  *)
(* bookkeeping and the client agent's polls                                *)
(***************************************************************************)

\* one of the failure handlers initiateFileTransfer installs runs for ch
FailureOf(ch) ==
    \/ ChannelClose(ch)
    \/ CloseEvent(ch)
    \/ ChannelError(ch)
    \/ IceStateChange(ch)

\* the step leaves the transfer of b registered, its offset and flag as they were
Untouched(b) ==
    /\ transfers'[ChanKey[b]] = b
    /\ chan'[b].offset = chan[b].offset
    /\ chan'[b].completed = chan[b].completed

\* the transfer of a was registered and left the Map before it completed
LostToFailure(a) ==
    /\ chan[a].phase = "added"
    /\ ~chan[a].completed
    /\ a \notin Registered(Cur)

\* some transfer fell to a failure while another is registered, incomplete
\* and open
OutlivesFailure ==
    \E a \in Chans : \E b \in Chans \ {a} : LostToFailure(a) /\ Live(b)

(* C31: when the transfer of channel a is removed because its channel      *)
(* errored or closed (or its ICE state failed), every other registered     *)
(* transfer stays registered with its offset and completed flag unchanged  *)
(* and the loop keeps running while any of them is incomplete; afterwards  *)
(* each of them, while its own channel stays open, is sent to completion.  *)
C31_FailureIsLocal ==
    /\ [][\A a \in Chans :
            (a \in Registered(Cur) /\ FailureOf(a)) =>
                /\ \A b \in Registered(Cur) \ {a} : Untouched(b)
                /\ (Unfinished' => isRunning' /\ armed' = 1)]_vars
    /\ OutlivesFailure ~> ~OutlivesFailure

\* a's transfer was removed part-way and b's, part-way too, is still being
\* served by the running loop
C31_Witness ==
    \E a \in Chans : \E b \in Chans \ {a} :
        /\ LostToFailure(a)
        /\ chan[a].offset > 0
        /\ Live(b)
        /\ chan[b].offset > 0
        /\ isRunning
        /\ armed = 1


(***************************************************************************)
(* Retry: two file-requested events of one client for one file, so that    *)
(* initiateFileTransfer runs twice with the same key; "a" is the channel   *)
(* of the earlier attempt and RetryChan the channel of the later one; the   *)
(* host page stays open                                                    *)
(***************************************************************************)
SameKey == {"a", RetryChan}

\* what send does in a tick: one transfer at most is registered under the key
RetryOutcomes == {[ch \in Attempts |-> out] : out \in Outcomes}

InitRetry ==
    /\ chan = [ch \in Attempts |-> NewChan]
    /\ transfers = [k \in Keys |-> NoChan]
    /\ peerConnections = [k \in Keys |-> NoChan]
    /\ isRunning = FALSE
    /\ armed = 0
    /\ timeoutId = "null"
    /\ lastTick = NoTick

\* the second file-requested event comes after the first
InitiateRetry(ch) ==
    /\ ch = RetryChan => chan["a"].readyState # "new"
    /\ InitiateTransfer(ch)

NextRetry ==
    \/ \E outs \in RetryOutcomes, latest \in BOOLEAN :
            TickTimer(outs, latest) /\ UNCHANGED exceptSched
    \/ \E ch \in SameKey :
        \/ InitiateRetry(ch) /\ UNCHANGED exceptSched
        \/ ChannelOpen(ch) /\ UNCHANGED exceptSched
        \/ \E outs \in RetryOutcomes : FileRead(ch, outs) /\ UNCHANGED exceptSched
        \/ Drain(ch) /\ UNCHANGED exceptSched
        \/ \E throws \in BOOLEAN :
                SendCompleteRetry(ch, throws) /\ UNCHANGED exceptSched
        \/ ChannelClose(ch) /\ UNCHANGED exceptSched
        \/ ChannelError(ch) /\ UNCHANGED exceptSched
        \/ IceStateChange(ch) /\ UNCHANGED exceptSched

InitWithRetry ==
    /\ InitPoll /\ InitRelay /\ InitAgent /\ InitRetry /\ InitPush
    /\ InitRecv /\ InitBudget /\ InitPage /\ InitFlight
    /\ hasLeft = [c \in ClientIds |-> FALSE]

SpecRetry == InitWithRetry /\ [][NextRetry]_vars

\* a close, error or ICE-state handler of the earlier attempt runs, or its
\* deferred sendComplete, which calls the completion callback
EarlierAttemptEvent == FailureOf("a") \/ \E throws \in BOOLEAN : SendCompleteRetry("a", throws)

(* C32: a retry registers a new transfer and a new peer connection under    *)
(* the key of the earlier attempt; no later close, error, ICE-state change  *)
(* or completion callback of the earlier attempt deregisters the new        *)
(* transfer or deletes the new peer connection.                             *)
C32_RetryIsolated ==
    [][EarlierAttemptEvent =>
        /\ transfers[ChanKey[RetryChan]] = RetryChan =>
                transfers'[ChanKey[RetryChan]] = RetryChan
        /\ peerConnections[ChanKey[RetryChan]] = RetryChan =>
                peerConnections'[ChanKey[RetryChan]] = RetryChan]_vars


(* C33: receive state is isolated per negotiation: an offer for a fileId    *)
(* that is already being received does not discard the chunks received so   *)
(* far, and a message of one fileId's channel leaves the buffers of the     *)
(* other fileIds as they were.                                              *)
C33_ReceiveIsolated ==
    [][\A f \in RecvFiles :
        /\ (HasBuffer(f) /\ handleOffer(f)) =>
                fileBuffers'[f].chunks = fileBuffers[f].chunks
        /\ \A m \in RecvMsgs : handleMessage(f, m) =>
                \A g \in RecvFiles \ {f} : fileBuffers'[g] = fileBuffers[g]]_vars


(* C34: in every reachable state of the poll coordinator every client id    *)
(* in any activeDownloads set of a room has a ClientSession in that room.   *)
C34_DownloadersHaveSessions ==
    \A r \in RoomIds :
        Exists(r) =>
            \A f \in DOMAIN rooms[r].activeDownloads :
                \A c \in rooms[r].activeDownloads[f] : HasClient(rooms[r], c)


(***************************************************************************)
(* The file list on the poll transport: a host that sets the room's files  *)
(* and the agents of the clients, whose poll function compares the         *)
(* response's filesUpdatedAt with the last one it saw                      *)
(***************************************************************************)
exceptFiles ==
    <<relayVars, schedVars, pushVars, recvVars, budgetVars, flightVars,
      hasLeft>>

\* ApiService.joinRoom: room-joined carries result.files, and
\* startClientPolling begins with lastFilesUpdatedAt = 0
FilesJoin(r, c) ==
    /\ joinRoom(r, c)
    /\ IF JoinResponse(r, c).status = 200
       THEN /\ filesShown' = [filesShown EXCEPT ![c] = JoinResponse(r, c).body.files]
            /\ lastFilesUpdatedAt' = [lastFilesUpdatedAt EXCEPT ![c] = 0]
            /\ UNCHANGED downloadingFiles
       ELSE UNCHANGED pageVars

\* if (data.filesUpdatedAt && data.filesUpdatedAt > lastFilesUpdatedAt)
FilesNewer(resp, c) ==
    /\ ~HostGone(resp)
    /\ resp.body.filesUpdatedAt # 0
    /\ resp.body.filesUpdatedAt > lastFilesUpdatedAt[c]

\* the client's poll function, by its timer: files-updated is emitted with
\* data.files when the response's stamp is newer
FilesPoll(r, c) ==
    /\ poll(r, c)
    /\ IF FilesNewer(ClientPollResponse(r, c), c)
       THEN /\ lastFilesUpdatedAt' = [lastFilesUpdatedAt EXCEPT ![c] =
                    ClientPollResponse(r, c).body.filesUpdatedAt]
            /\ filesShown' = [filesShown EXCEPT ![c] =
                    ClientPollResponse(r, c).body.files]
            /\ UNCHANGED downloadingFiles
       ELSE UNCHANGED pageVars

NextFiles ==
    \/ AgentAdvanceTime /\ UNCHANGED <<pageVars, exceptFiles>>
    \/ \E r \in RoomIds :
        \/ \E h \in HostIds : hostRoom(r, h) /\ UNCHANGED <<pageVars, exceptFiles>>
        \/ disconnect(r) /\ UNCHANGED <<pageVars, exceptFiles>>
        \/ \E files \in FileLists :
            SetFiles(r, files) /\ UNCHANGED <<agentVars, pageVars, exceptFiles>>
        \/ \E c \in ClientIds :
            \/ FilesJoin(r, c) /\ UNCHANGED exceptFiles
            \/ FilesPoll(r, c) /\ UNCHANGED exceptFiles

\* setInterval(poll, POLL_INTERVAL): the poll of a joined client keeps running
FilesFairness ==
    \A r \in RoomIds : \A c \in ClientIds :
        WF_vars(FilesPoll(r, c) /\ UNCHANGED exceptFiles)

SpecFiles == Init /\ [][NextFiles]_vars /\ FilesFairness

\* the agent of c polls a room whose list was set, and shows that list
InSync(r, c) ==
    (agent[c] = "polling" /\ Exists(r) /\ rooms[r].filesUpdatedAt # 0) =>
        filesShown[c] = rooms[r].files

(* C35: each successful setFiles gives the room a strictly larger update    *)
(* stamp than the setFiles before it, so that every joined client that      *)
(* keeps polling emits files-updated with the latest list: it does not stay *)
(* for ever on a list other than the room's.                                *)
C35_LatestListShown ==
    /\ [][\A r \in RoomIds : \A files \in FileLists :
            (Exists(r) /\ rooms[r].filesUpdatedAt # 0 /\ SetFiles(r, files)) =>
                rooms'[r].filesUpdatedAt > rooms[r].filesUpdatedAt]_vars
    /\ \A r \in RoomIds : \A c \in ClientIds : []<>InSync(r, c)


(* C36: a disconnect deletes a room only when the disconnecting socket is   *)
(* the room's current host: after a second socket has registered as host    *)
(* of the roomId, the disconnect of the earlier host socket leaves the      *)
(* room in place.                                                           *)
C36_OnlyCurrentHostDeletes ==
    [][\A s \in SocketIds : \A r \in RoomIds :
        (Disconnect(s) /\ PushExists(r) /\ pushRooms'[r] = NoRoom) =>
            pushRooms[r].hostSocketId = s]_vars


(***************************************************************************)
(* A download requested on the client's page (ClientRoom.js), on the poll  *)
(* transport: handleDownload calls requestFile of the WebRTCClient, whose  *)
(* socket is the ApiService                                                *)
(***************************************************************************)
exceptClientRoom ==
    <<relayVars, agentVars, schedVars, pushVars, budgetVars, flightVars,
      hasLeft>>

\* handleDownload(fileId): nothing for a file that is being or was downloaded;
\* else webrtcRef.current.requestFile(fileId), whose first parameter (roomId)
\* takes the fileId, and whose request-file goes to ApiService.emit
handleDownload(f) ==
    /\ f \notin downloadingFiles
    /\ completions[f] = 0
    /\ downloadingFiles' = downloadingFiles \cup {f}
    /\ requestFile(f)
    /\ emit("request-file")
    /\ UNCHANGED <<lastFilesUpdatedAt, filesShown>>

\* the page offers a download once the client has joined the room
ClientRoomDownload(r, f) ==
    /\ Exists(r)
    /\ HasClient(rooms[r], DlClient)
    /\ handleDownload(f)

NextClientRoom ==
    \/ AdvanceTime /\ UNCHANGED <<recvVars, pageVars, exceptClientRoom>>
    \/ \E r \in RoomIds :
        \/ \E h \in HostIds : DlHostRoom(r, h) /\ UNCHANGED exceptDownload
        \/ \E files \in FileLists :
                DlSetFiles(r, files) /\ UNCHANGED exceptDownload
        \/ DlHostPoll(r) /\ UNCHANGED exceptDownload
        \/ DlJoin(r) /\ UNCHANGED exceptDownload
        \/ DlClientPoll(r) /\ UNCHANGED exceptDownload
        \/ \E f \in RecvFiles :
                ClientRoomDownload(r, f) /\ UNCHANGED exceptClientRoom

SpecClientRoom == Init /\ [][NextClientRoom]_vars /\ DownloadFairness

\* the coordinator took a request-file of the client for f: the host's
\* mailbox holds the file-request and the client is counted as a downloader
RequestReached(r, f) ==
    /\ Exists(r)
    /\ DlClient \in Downloaders(rooms[r], f)
    /\ \E i \in 1..Len(rooms[r].hostSignals) :
            rooms[r].hostSignals[i] = FileRequest(DlClient, f)

(* C37: end to end on the poll transport, when the client requests a        *)
(* download (handleDownload calling requestFile of the WebRTCClient built   *)
(* on the ApiService), a request-file reaches the coordinator: eventually   *)
(* the host's mailbox holds a file-request signal with that fileId and the  *)
(* client is counted in activeDownloads[fileId].                            *)
C37_RequestReachesHost ==
    \A r \in RoomIds : \A f \in RecvFiles :
        (f \in downloadingFiles) ~> RequestReached(r, f)


(***************************************************************************)
(* The client agent's polls with their responses under way: the poll       *)
(* function awaits its fetch, and neither the interval timer nor           *)
(* triggerPoll (or the timer of requestFile) waits for an earlier poll     *)
(***************************************************************************)
exceptFlight ==
    <<schedVars, pushVars, recvVars, budgetVars, pageVars, hasLeft>>

\* the poll function up to its await: the coordinator handles the GET and
\* answers; the interval's poll needs the timer, a manual one only pollFn
PollRequest(r, c, slot) ==
    /\ IF slot = "interval" THEN agent[c] = "polling" ELSE PollFnSet(c)
    /\ inFlight[slot] = NoResponse
    /\ RelayClientPoll(r, c)
    /\ inFlight' = [inFlight EXCEPT ![slot] = ClientPollResponse(r, c)]
    /\ UNCHANGED <<handled, agentVars>>

\* the poll function after its await: host-disconnected and stopPolling, or
\* for (const signal of data.signals) this.handleSignal(signal)
PollResponse(c, slot) ==
    /\ inFlight[slot] # NoResponse
    /\ inFlight' = [inFlight EXCEPT ![slot] = NoResponse]
    /\ IF HostGone(inFlight[slot])
       THEN /\ agent' = [agent EXCEPT ![c] = "stopped"]
            /\ orphaned' = [orphaned EXCEPT ![c] = FALSE]
            /\ disconnects' = [disconnects EXCEPT ![c] = @ + 1]
            /\ UNCHANGED <<handled, latePolls>>
       ELSE /\ handled' = handled \o inFlight[slot].body.signals
            /\ UNCHANGED agentVars
    /\ UNCHANGED <<pollVars, relayVars>>

NextFlight ==
    \/ \E slot \in PollSlots :
            PollResponse(DlClient, slot) /\ UNCHANGED exceptFlight
    \/ \E r \in RoomIds :
        \/ RelayRegisterHost(r, "h1") /\ UNCHANGED exceptRelay
        \/ joinRoom(r, DlClient)
                /\ UNCHANGED <<relayVars, flightVars, exceptFlight>>
        \/ \E type \in SignalTypes, f \in SignalFiles :
            RelaySignal(r, "h1", DlClient, type, f) /\ UNCHANGED exceptRelay
        \/ \E slot \in PollSlots :
            PollRequest(r, DlClient, slot) /\ UNCHANGED exceptFlight

SpecFlight == Init /\ [][NextFlight]_vars

\* s is the beginning of t
IsPrefix(s, t) ==
    /\ Len(s) <= Len(t)
    /\ \A i \in 1..Len(s) : s[i] = t[i]

(* C38: the client agent hands signals to its handlers in the order in      *)
(* which the coordinator accepted them, also when an interval poll and a    *)
(* manually triggered poll are in flight at once and their responses come   *)
(* back in either order: what it has handled is a beginning of what the     *)
(* coordinator accepted for it.                                             *)
C38_HandledInAcceptedOrder ==
    \A r \in RoomIds : IsPrefix(handled, accepted[r][DlClient])


(***************************************************************************)
(* The poll coordinator with the history of the clients' leaves            *)
(***************************************************************************)
exceptLeave ==
    <<relayVars, agentVars, schedVars, pushVars, recvVars, budgetVars,
      pageVars, flightVars>>

\* a leave request was answered: it took the client's session from the room
Left(r, c) ==
    /\ Leave(r, c)
    /\ hasLeft' = [hasLeft EXCEPT ![c] =
            IF Exists(r) /\ HasClient(rooms[r], c) THEN TRUE ELSE @]

\* a join request was answered, with success or with 404
Joined(r, c) ==
    /\ Join(r, c)
    /\ hasLeft' = [hasLeft EXCEPT ![c] =
            IF JoinResponse(r, c).status = 200 THEN FALSE ELSE @]

NextLeave ==
    \/ AdvanceTime /\ UNCHANGED <<hasLeft, exceptLeave>>
    \/ Sweep /\ UNCHANGED <<hasLeft, exceptLeave>>
    \/ \E r \in RoomIds :
        \/ \E h \in HostIds : RegisterHost(r, h) /\ UNCHANGED <<hasLeft, exceptLeave>>
        \/ HostPoll(r) /\ UNCHANGED <<hasLeft, exceptLeave>>
        \/ Close(r) /\ UNCHANGED <<hasLeft, exceptLeave>>
        \/ \E c \in ClientIds :
            \/ Joined(r, c) /\ UNCHANGED exceptLeave
            \/ Left(r, c) /\ UNCHANGED exceptLeave
            \/ ClientPoll(r, c) /\ UNCHANGED <<hasLeft, exceptLeave>>
            \/ \E f \in FileIds :
                \/ /\ HostMailboxBelow(r, MaxMailbox)
                   /\ RequestFile(r, c, f)
                   /\ UNCHANGED <<hasLeft, exceptLeave>>
                \/ DownloadComplete(r, c, f) /\ UNCHANGED <<hasLeft, exceptLeave>>

SpecLeave == Init /\ [][NextLeave]_vars

(* C39: after leaveClient(roomId, c) the room has no ClientSession for c    *)
(* and c is in no activeDownloads set of it, until c calls joinClient       *)
(* again, whatever polls or requests of c arrive in between.                *)
C39_LeftStaysOut ==
    \A r \in RoomIds : \A c \in ClientIds :
        (hasLeft[c] /\ Exists(r)) =>
            /\ ~HasClient(rooms[r], c)
            /\ \A f \in DOMAIN rooms[r].activeDownloads :
                    c \notin rooms[r].activeDownloads[f]


\* the step changes the host timestamp of a room that stays
HostStampMoved(r) ==
    /\ Exists(r)
    /\ rooms'[r] # NoRoom
    /\ rooms'[r].hostLastSeen # rooms[r].hostLastSeen

====
